---------------------------- MODULE Spec2Model ----------------------------
(***************************************************************************)
(* AgriChain advisory pipeline (src/agrichain): the weather provider, the  *)
(* harvest-window predictor, the market ranker, the spoilage model and the *)
(* preservation-action ranker, as state machines over bounded inputs.      *)
(*                                                                         *)
(* Conventions                                                             *)
(*  - Text that the code transforms (crop, district, market, state,       *)
(*    commodity names) is a tuple of one-character strings, so that        *)
(*    lower(), strip(), slicing and substring tests are computed.          *)
(*  - Dates are day ordinals; today + timedelta(days=k) is today + k.      *)
(*  - Weather quantities (mm, degrees C, percent humidity) are integers in *)
(*    tenths, the resolution the forecast carries.                         *)
(*  - Money per kg is in paise (hundredths of a rupee).                    *)
(***************************************************************************)
EXTENDS Integers, Sequences, FiniteSets, TLC

VARIABLES
    pc,         \* position of the caller: "ready" before the call, "returned" after
    today,      \* date.today(), a day ordinal
    weather,    \* the WeatherForecast handed to the component
    call,       \* the call made and what it returned
    csv,        \* data/commodity_price.csv: whether it exists, and its rows
    price_df,   \* the lru_cache of _load_price_df: the frame once loaded
    env,        \* os.environ when weather_service is imported: name -> text
    responses,  \* what the calls served by this process returned, in order
    loads       \* how many times the body of _load_price_df has run in this process

vars == <<pc, today, weather, call, csv, price_df, env, responses, loads>>

(***************************** bounds **************************************)
MaxDays == 7        \* longest forecast handed to the harvest predictor
MaxBriefDays == 3   \* longest forecast handed to the spoilage model
FirstDay == 3       \* day ordinal of the calendar day the component calls are made on
MaxRows == 7        \* most rows in commodity_price.csv
MaxCalls == 3       \* most calls one weather-provider process serves
MaxMidnights == 2   \* most changes of calendar day while it serves

(***************************** arithmetic **********************************)
Max(a, b) == IF a >= b THEN a ELSE b
Min(a, b) == IF a <= b THEN a ELSE b

\* floor(n / d) for d > 0 and any integer n
FloorDiv(n, d) == IF n >= 0 THEN n \div d ELSE -((-n + d - 1) \div d)

\* Python round() of the rational n/d (d > 0): nearest integer, an exact half
\* going to the even neighbour.
RoundHalfEven(n, d) ==
    LET q == FloorDiv(n, d)
        r == n - q * d
    IN  IF 2 * r < d THEN q
        ELSE IF 2 * r > d THEN q + 1
        ELSE IF q % 2 = 0 THEN q ELSE q + 1

RECURSIVE SeqSum(_)
\* sum(s)
SeqSum(s) == IF s = <<>> THEN 0 ELSE Head(s) + SeqSum(Tail(s))

\* Python s[a:b] for 0 <= a, 0 <= b
Slice(s, a, b) == SubSeq(s, a + 1, Min(b, Len(s)))

(***************************** text ****************************************)
UpperAZ == <<"A","B","C","D","E","F","G","H","I","J","K","L","M",
             "N","O","P","Q","R","S","T","U","V","W","X","Y","Z">>
LowerAZ == <<"a","b","c","d","e","f","g","h","i","j","k","l","m",
             "n","o","p","q","r","s","t","u","v","w","x","y","z">>

Digits == <<"0","1","2","3","4","5","6","7","8","9">>

\* the characters of the model in code-point order
Alphabet == <<" ">> \o Digits \o UpperAZ \o <<"_">> \o LowerAZ

Chars == {Alphabet[i] : i \in DOMAIN Alphabet}

LowerTable ==
    [c \in Chars |-> IF \E i \in DOMAIN UpperAZ : UpperAZ[i] = c
                     THEN LowerAZ[CHOOSE i \in DOMAIN UpperAZ : UpperAZ[i] = c]
                     ELSE c]

UpperTable ==
    [c \in Chars |-> IF \E i \in DOMAIN LowerAZ : LowerAZ[i] = c
                     THEN UpperAZ[CHOOSE i \in DOMAIN LowerAZ : LowerAZ[i] = c]
                     ELSE c]

CodeTable == [c \in Chars |-> CHOOSE i \in DOMAIN Alphabet : Alphabet[i] = c]

Letters == {UpperAZ[i] : i \in DOMAIN UpperAZ} \cup {LowerAZ[i] : i \in DOMAIN LowerAZ}

LowerChar(c) == LowerTable[c]

\* str.lower()
Lower(s) == [i \in DOMAIN s |-> LowerChar(s[i])]

\* a in b  (substring test)
Contains(b, a) ==
    \E i \in 0..(Len(b) - Len(a)) : SubSeq(b, i + 1, i + Len(a)) = a

RECURSIVE LStrip(_)
LStrip(s) == IF s # <<>> /\ Head(s) = " " THEN LStrip(Tail(s)) ELSE s

RECURSIVE RStrip(_)
RStrip(s) ==
    IF s # <<>> /\ s[Len(s)] = " " THEN RStrip(SubSeq(s, 1, Len(s) - 1)) ELSE s

\* str.strip()
Strip(s) == RStrip(LStrip(s))

CharCode(c) == CodeTable[c]

IsLetter(c) == c \in Letters

UpperChar(c) == UpperTable[c]

\* str.title(): a letter that starts a word in upper case, the others in lower case
Title(s) ==
    [i \in DOMAIN s |-> IF i = 1 \/ ~IsLetter(s[i - 1]) THEN UpperChar(s[i]) ELSE LowerChar(s[i])]

\* a < b as Python compares str
LexLess(a, b) ==
    \E i \in 1..(Min(Len(a), Len(b)) + 1) :
        /\ \A j \in 1..(i - 1) : a[j] = b[j]
        /\ \/ i > Len(a) /\ i <= Len(b)
           \/ i <= Len(a) /\ i <= Len(b) /\ CharCode(a[i]) < CharCode(b[i])

\* str.replace("_", " ")
UnderscoreToSpace(s) == [i \in DOMAIN s |-> IF s[i] = "_" THEN " " ELSE s[i]]

\* list.sort / sorted: stable; Before(x, y) says x's key sorts strictly
\* before y's, elements with equal keys keep their order
StableSort(s, Before(_, _)) ==
    LET n == Len(s)
        pos == [i \in 1..n |-> Cardinality({j \in 1..n :
                      Before(s[j], s[i]) \/ (~Before(s[i], s[j]) /\ j < i)}) + 1]
    IN  [k \in 1..n |-> s[CHOOSE i \in 1..n : pos[i] = k]]

(***************************** initial values ******************************)
\* no call made yet
NoCall == [fn |-> "none"]
\* data/commodity_price.csv absent
NoFile == [exists |-> FALSE, parses |-> FALSE, rows |-> <<>>]
\* data/commodity_price.csv present but not a table pd.read_csv can tokenize
MalformedFile == [exists |-> TRUE, parses |-> FALSE, rows |-> <<>>]
\* _load_price_df not yet run to completion
Unloaded == [loaded |-> FALSE, rows |-> <<>>]
\* an environment that sets neither USE_REAL_WEATHER nor OWM_API_KEY
NoEnv == [name \in {} |-> <<>>]

(***************************** crop names **********************************)
tomato      == <<"t","o","m","a","t","o">>
wheat       == <<"w","h","e","a","t">>
rice        == <<"r","i","c","e">>
onion       == <<"o","n","i","o","n">>
potato      == <<"p","o","t","a","t","o">>
soybean     == <<"s","o","y","b","e","a","n">>
cotton      == <<"c","o","t","t","o","n">>
maize       == <<"m","a","i","z","e">>
chickpea    == <<"c","h","i","c","k","p","e","a">>
dragonfruit == <<"d","r","a","g","o","n","f","r","u","i","t">>
TomatoCap   == <<"T","o","m","a","t","o">>
WHEAT       == <<"W","H","E","A","T">>

\* crop names a caller may pass: every profiled crop, the advertised crop
\* without a profile, an unknown crop, and two spellings in other letter case
CropNames == {tomato, wheat, rice, onion, potato, soybean, cotton, maize,
              chickpea, dragonfruit, TomatoCap, WHEAT}

HarvestStages == {"15days", "7days", "ready", "overdue", "sprouting"}

(***************************** CROP_PROFILE ********************************)
MkProfile(m15, m7, mready, mover, tlo, thi, hum, win, per, delay) ==
    [ maturity_days       |-> ("15days" :> m15) @@ ("7days" :> m7)
                               @@ ("ready" :> mready) @@ ("overdue" :> mover),
      ideal_temp_range    |-> <<tlo, thi>>,
      humidity_tolerance  |-> hum,
      harvest_window_days |-> win,
      perishability       |-> per,
      delay_penalty_days  |-> delay ]

CROP_PROFILE ==
    (tomato  :> MkProfile(15,  7, 0, -3, 18, 28, 65, 4, "high",   4))
 @@ (wheat   :> MkProfile(35, 28, 0, -5, 15, 25, 14, 5, "low",    7))
 @@ (rice    :> MkProfile(20, 10, 0, -5, 20, 32, 75, 5, "low",    6))
 @@ (onion   :> MkProfile(10,  5, 0, -4, 20, 30, 60, 5, "medium", 6))
 @@ (potato  :> MkProfile(15,  8, 0, -3, 15, 22, 70, 6, "medium", 5))
 @@ (soybean :> MkProfile(20, 12, 0, -5, 20, 30, 50, 5, "low",    8))
 @@ (cotton  :> MkProfile(20, 10, 0, -7, 25, 35, 55, 7, "low",   10))
 @@ (maize   :> MkProfile(18,  9, 0, -4, 18, 30, 60, 5, "medium", 5))

\* "supported_crops" of the root endpoint
SUPPORTED_CROPS == {tomato, wheat, rice, onion, potato, soybean, cotton, maize, chickpea}

\* CROP_PROFILE.get(crop.lower(), CROP_PROFILE.get("tomato"))
ProfileDefaultWheat(crop) ==
    IF Lower(crop) \in DOMAIN CROP_PROFILE
    THEN CROP_PROFILE[Lower(crop)] ELSE CROP_PROFILE[wheat]

Profile(crop) ==
    IF Lower(crop) \in DOMAIN CROP_PROFILE
    THEN CROP_PROFILE[Lower(crop)] ELSE CROP_PROFILE[tomato]

(***************************** forecasts ***********************************)
\* A WeatherDay, quantities in tenths.
MkDay(rain, tmax, hum) ==
    [rainfall_mm |-> rain, temp_max_c |-> tmax, humidity_pct |-> hum]

\* the kinds of day a forecast is made of: a clear mild day, a hot humid day
\* with a shower, and a 600 mm cloudburst
DayKinds == { MkDay(0, 250, 500), MkDay(45, 360, 800), MkDay(6000, 250, 950) }

RECURSIVE SeqsUpTo(_, _)
\* all sequences over S of length <= n
SeqsUpTo(S, n) ==
    IF n = 0 THEN {<<>>}
    ELSE LET shorter == SeqsUpTo(S, n - 1)
         IN  shorter \cup {Append(s, x) : s \in {t \in shorter : Len(t) = n - 1}, x \in S}

\* The WeatherForecast built over a day sequence: the derived fields as
\* _mock_weather_forecast derives them (means rounded to one decimal, the
\* count of rain days); an empty forecast carries zeros.
MkForecast(days) ==
    LET n == Len(days)
    IN  [ days         |-> days,
          avg_temp     |-> IF n = 0 THEN 0
                           ELSE RoundHalfEven(SeqSum([i \in DOMAIN days |-> days[i].temp_max_c]), n),
          avg_humidity |-> IF n = 0 THEN 0
                           ELSE RoundHalfEven(SeqSum([i \in DOMAIN days |-> days[i].humidity_pct]), n),
          rain_days    |-> Len(SelectSeq(days, LAMBDA d : d.rainfall_mm > 0)) ]

Forecasts == {MkForecast(ds) : ds \in SeqsUpTo(DayKinds, MaxDays)}
BriefForecasts == {MkForecast(ds) : ds \in SeqsUpTo(DayKinds, MaxBriefDays)}

(***************************** predict_harvest_window **********************)
\* profile["maturity_days"].get(harvest_stage, 7)
DaysLeft(profile, harvest_stage) ==
    IF harvest_stage \in DOMAIN profile.maturity_days
    THEN profile.maturity_days[harvest_stage] ELSE 7

\* score of one window, in twentieths of a point:
\* 100 - 2*sum(rain) - 3*sum(max(0, tmax - ideal_hi)) - 0.5*sum(max(0, hum - tol))
WindowScore(profile, window_days) ==
    LET rain == SeqSum([i \in DOMAIN window_days |-> window_days[i].rainfall_mm])
        heat == SeqSum([i \in DOMAIN window_days |->
                  Max(0, window_days[i].temp_max_c - 10 * profile.ideal_temp_range[2])])
        hum  == SeqSum([i \in DOMAIN window_days |->
                  Max(0, window_days[i].humidity_pct - 10 * profile.humidity_tolerance)])
    IN  2000 - 4 * rain - 6 * heat - hum

\* range(max(0, days_left - 2), min(days_left + 5, 6))
CandidateOffsets(days_left) ==
    {o \in Max(0, days_left - 2)..(Min(days_left + 5, 6) - 1) : TRUE}

\* the offsets of the loop whose window_days is not empty: those that get a score
ScoredOffsets(profile, days, days_left) ==
    {o \in CandidateOffsets(days_left) :
        Slice(days, o, o + profile.harvest_window_days) # <<>>}

RECURSIVE WindowSearch(_, _, _, _, _)
\* the for loop of lines 155-173 from offset o on; best = [score, start]
WindowSearch(profile, days, o, stop, best) ==
    IF o >= stop THEN best
    ELSE LET window_days == Slice(days, o, o + profile.harvest_window_days)
         IN  IF window_days = <<>>
             THEN WindowSearch(profile, days, o + 1, stop, best)
             ELSE LET score == WindowScore(profile, window_days)
                  IN  IF score > best.score
                      THEN WindowSearch(profile, days, o + 1, stop,
                                        [score |-> score, start |-> o])
                      ELSE WindowSearch(profile, days, o + 1, stop, best)

BestWindowStartUnfloored(profile, days, days_left) ==
    WindowSearch(profile, days, Max(0, days_left - 2), Min(days_left + 5, 6),
                 [score |-> -999 * 20, start |-> days_left]).start

\* offset from today of best_window_start after the loop
BestWindowStart(profile, days, days_left) ==
    WindowSearch(profile, days, Max(0, days_left - 2), Min(days_left + 5, 6),
                 [score |-> -999 * 20, start |-> Max(0, days_left)]).start

\* window_end = best_window_start + timedelta(days=harvest_window_days - 1)
WindowEndClipped(profile, start, horizon_end) ==
    Min(start + profile.harvest_window_days - 1, Max(start, horizon_end))

WindowEnd(profile, start, horizon_end) ==
    start + profile.harvest_window_days - 1

UrgencyBelowThree(days_to_start) ==
    IF days_to_start < 3 THEN "urgent"
    ELSE IF days_to_start <= 10 THEN "normal"
    ELSE "plan_ahead"

Urgency(days_to_start) ==
    IF days_to_start <= 3 THEN "urgent"
    ELSE IF days_to_start <= 10 THEN "normal"
    ELSE "plan_ahead"

\* the two weather factors computed over weather.days[max(0,dts) : dte+1],
\* and the humidity factor
HarvestFactors(profile, w, days_to_start, days_to_end) ==
    LET in_window == Slice(w.days, Max(0, days_to_start), days_to_end + 1)
        rain_days_in_window == Len(SelectSeq(in_window, LAMBDA d : d.rainfall_mm > 0))
        sum_max == SeqSum([i \in DOMAIN in_window |-> in_window[i].temp_max_c])
        denom == Max(1, days_to_end - days_to_start + 1)
    IN  << [type |-> IF rain_days_in_window = 0 THEN "good" ELSE "warn", about |-> "rain"],
           [type |-> IF sum_max <= 10 * profile.ideal_temp_range[2] * denom
                     THEN "good" ELSE "warn", about |-> "temp"],
           [type |-> IF w.avg_humidity <= 10 * profile.humidity_tolerance
                     THEN "good" ELSE "warn", about |-> "humidity"],
           [type |-> "bad", about |-> "delay"] >>

\* days_display: "In {days_to_start}-{days_to_end} days", a dash, and the suffix
\* the if-chain on urgency picks
DaysDisplay(urgency, days_to_start, days_to_end) ==
    [ from   |-> days_to_start,
      to     |-> days_to_end,
      suffix |-> IF urgency = "urgent" THEN "act soon!"
                 ELSE IF urgency = "normal" THEN "optimal window"
                 ELSE "plan ahead" ]

predict_harvest_window(crop, harvest_stage, w, now) ==
    LET profile == Profile(crop)
        days_left == DaysLeft(profile, harvest_stage)
        best_window_start == now + BestWindowStart(profile, w.days, days_left)
        window_end == WindowEnd(profile, best_window_start, now + Len(w.days) - 1)
        days_to_start == best_window_start - now
        days_to_end == window_end - now
    IN  [ start_date |-> best_window_start,
          end_date   |-> window_end,
          urgency    |-> Urgency(days_to_start),
          days_from_today |-> DaysDisplay(Urgency(days_to_start), days_to_start, days_to_end),
          delay_date |-> window_end + profile.delay_penalty_days,
          factors    |-> HarvestFactors(profile, w, days_to_start, days_to_end) ]

(***************************** the harvest predictor as a machine **********)
InitHarvest ==
    /\ pc = "ready"
    /\ today = FirstDay
    /\ weather \in Forecasts
    /\ call = NoCall
    /\ csv = NoFile
    /\ price_df = Unloaded
    /\ env = NoEnv
    /\ responses = <<>>
    /\ loads = 0

PredictHarvestWindow ==
    /\ pc = "ready"
    /\ \E crop \in CropNames, harvest_stage \in HarvestStages :
         call' = [ fn |-> "predict_harvest_window",
                   crop |-> crop, harvest_stage |-> harvest_stage,
                   result |-> predict_harvest_window(crop, harvest_stage, weather, today) ]
    /\ pc' = "returned"
    /\ UNCHANGED <<today, weather, csv, price_df, env, responses, loads>>

NextHarvest == PredictHarvestWindow

SpecHarvest == InitHarvest /\ [][NextHarvest]_vars

(***************************** predict_spoilage ****************************)
none      == <<"n","o","n","e">>
warehouse == <<"w","a","r","e","h","o","u","s","e">>
cold      == <<"c","o","l","d">>
home      == <<"h","o","m","e">>
ColdCap   == <<"C","o","l","d">>
shed      == <<"s","h","e","d">>

\* storage types a caller may pass: the four of the StorageType enum, one in
\* another letter case and one the factor table does not know
StorageTypes == {none, warehouse, cold, home, ColdCap, shed}

\* transit_hours in thousandths of an hour: 0 km, 15 km, 80 km, 240 km and
\* 1400 km at 40 km/h
TransitHours == {0, 375, 2000, 6000, 35000}

\* STORAGE_SPOILAGE_FACTOR.get(storage_type.lower(), 1.0), in tenths
StorageFactor(storage_type) ==
    LET k == Lower(storage_type)
    IN  IF k = cold THEN 4
        ELSE IF k = warehouse THEN 7
        ELSE IF k = home THEN 10
        ELSE IF k = none THEN 13
        ELSE 10

\* PERISHABILITY_BASE_RISK
BaseRisk(perishability) ==
    IF perishability = "high" THEN 35
    ELSE IF perishability = "medium" THEN 20
    ELSE 10

RawRiskTransitForAll(profile, storage_type, w, transit_hours) ==
    LET temp_penalty ==
            IF profile.perishability \in {"high", "medium"}
            THEN 150 * Max(0, w.avg_temp - 300) ELSE 0
        hum_penalty == 30 * Max(0, w.avg_humidity - 10 * profile.humidity_tolerance)
        transit_penalty == Max(0, (transit_hours - 3000) * 2)
    IN  BaseRisk(profile.perishability) * StorageFactor(storage_type) * 100
          + temp_penalty + hum_penalty + transit_penalty

\* raw_risk in thousandths of a percentage point
RawRisk(profile, storage_type, w, transit_hours) ==
    LET temp_penalty ==
            IF profile.perishability \in {"high", "medium"}
            THEN 150 * Max(0, w.avg_temp - 300) ELSE 0
        hum_penalty == 30 * Max(0, w.avg_humidity - 10 * profile.humidity_tolerance)
        transit_penalty ==
            IF profile.perishability = "high"
            THEN Max(0, (transit_hours - 3000) * 2) ELSE 0
    IN  BaseRisk(profile.perishability) * StorageFactor(storage_type) * 100
          + temp_penalty + hum_penalty + transit_penalty

\* int(min(95, max(5, round(raw_risk))))
RiskPctUnclamped(raw_risk) == RoundHalfEven(raw_risk, 1000)

RiskPct(raw_risk) == Min(95, Max(5, RoundHalfEven(raw_risk, 1000)))

RiskLevel(risk_pct) ==
    IF risk_pct < 20 THEN "Low"
    ELSE IF risk_pct < 45 THEN "Medium"
    ELSE "High"

SpoilageFactors(profile, storage_type, w, transit_hours) ==
    << [type |-> IF storage_type = none THEN "warn"
                 ELSE IF storage_type = cold THEN "good" ELSE "warn", about |-> "storage"],
       [type |-> IF profile.perishability = "high" /\ (transit_hours - 3000) * 2 > 0
                 THEN "warn" ELSE "good", about |-> "transit"],
       [type |-> IF w.rain_days = 0 THEN "good" ELSE "bad", about |-> "rain"] >>

predict_spoilage(crop, storage_type, w, transit_hours) ==
    LET profile == Profile(crop)
        risk_pct == RiskPct(RawRisk(profile, storage_type, w, transit_hours))
    IN  [ risk_pct   |-> risk_pct,
          risk_level |-> RiskLevel(risk_pct),
          factors    |-> SpoilageFactors(profile, storage_type, w, transit_hours) ]

(***************************** get_preservation_actions ********************)
MkAction(title, cost, effectiveness, spoilage_reduction) ==
    [ title |-> title, cost |-> cost, effectiveness |-> effectiveness,
      spoilage_reduction |-> spoilage_reduction ]

\* ALL_ACTIONS
ALL_ACTIONS ==
    [ high_perishability |->
        << MkAction("Harvest in early morning (5-8 AM)", 0, 4, 8),
           MkAction("Use ventilated crates (not gunny bags)", 1000, 4, 12),
           MkAction("Pre-cooling at nearest cold store (4 hrs)", 2750, 5, 20),
           MkAction("Apply wax coating (tomato/onion/potato)", 1500, 3, 10) >>,
      low_perishability |->
        << MkAction("Dry grain to <14% moisture before storage", 0, 5, 15),
           MkAction("Use HDPE / moisture-proof bags", 500, 4, 10),
           MkAction("Store away from direct sunlight & moisture", 0, 3, 8) >>,
      medium_perishability |->
        << MkAction("Cure produce before storage (7-10 days in shade)", 0, 5, 18),
           MkAction("Use ventilated storage with airflow", 800, 4, 12),
           MkAction("Sort & grade before packing", 0, 3, 8) >> ]

ActionPool(perishability) ==
    IF perishability = "high" THEN ALL_ACTIONS.high_perishability
    ELSE IF perishability = "low" THEN ALL_ACTIONS.low_perishability
    ELSE ALL_ACTIONS.medium_perishability

KeyGreaterByEffectiveness(a, b) == a.effectiveness > b.effectiveness

\* key(a) > key(b) for key = effectiveness * 10 / (cost + 1)
KeyGreater(a, b) ==
    a.effectiveness * 10 * (b.cost + 1) > b.effectiveness * 10 * (a.cost + 1)

\* sorted(pool, key=..., reverse=True): descending, equal keys in pool order
SortedByKey(pool) == StableSort(pool, KeyGreater)

\* running_spoilage = max(5, running_spoilage - action["spoilage_reduction"])
ResidualIndependent(running_spoilage, spoilage_risk, action) ==
    Max(5, spoilage_risk - action.spoilage_reduction)

Residual(running_spoilage, spoilage_risk, action) ==
    Max(5, running_spoilage - action.spoilage_reduction)

RECURSIVE RankActions(_, _, _, _)
\* the loop of lines 498-509 from index i (0-based) on
RankActions(top, i, running_spoilage, spoilage_risk) ==
    IF i >= Len(top) THEN <<>>
    ELSE LET after == Residual(running_spoilage, spoilage_risk, top[i + 1])
         IN  << [ rank           |-> i + 1,
                  title          |-> top[i + 1].title,
                  cost_value     |-> top[i + 1].cost,
                  effectiveness  |-> top[i + 1].effectiveness,
                  spoilage_after |-> after ] >>
             \o RankActions(top, i + 1, after, spoilage_risk)

get_preservation_actions(crop, storage_type, spoilage_risk) ==
    LET pool_sorted == SortedByKey(ActionPool(Profile(crop).perishability))
    IN  RankActions(Slice(pool_sorted, 0, 3), 0, spoilage_risk, spoilage_risk)

\* spoilage_risk values a caller may pass; the pipeline passes risk_pct
RiskInputs == {-3, 0, 4, 5, 6, 13, 14, 22, 25, 31, 38, 45, 60, 95, 100}

(***************************** ml_service as a machine *********************)
InitML ==
    /\ pc = "ready"
    /\ today = FirstDay
    /\ weather \in BriefForecasts
    /\ call = NoCall
    /\ csv = NoFile
    /\ price_df = Unloaded
    /\ env = NoEnv
    /\ responses = <<>>
    /\ loads = 0

PredictSpoilage ==
    /\ pc = "ready"
    /\ \E crop \in CropNames, storage_type \in StorageTypes, transit_hours \in TransitHours :
         call' = [ fn |-> "predict_spoilage",
                   crop |-> crop, storage_type |-> storage_type,
                   transit_hours |-> transit_hours,
                   result |-> predict_spoilage(crop, storage_type, weather, transit_hours) ]
    /\ pc' = "returned"
    /\ UNCHANGED <<today, weather, csv, price_df, env, responses, loads>>

GetPreservationActions ==
    /\ pc = "ready"
    /\ \E crop \in CropNames, storage_type \in StorageTypes, spoilage_risk \in RiskInputs :
         call' = [ fn |-> "get_preservation_actions",
                   crop |-> crop, storage_type |-> storage_type,
                   spoilage_risk |-> spoilage_risk,
                   result |-> get_preservation_actions(crop, storage_type, spoilage_risk) ]
    /\ pc' = "returned"
    /\ UNCHANGED <<today, weather, csv, price_df, env, responses, loads>>

NextML == PredictHarvestWindow \/ PredictSpoilage \/ GetPreservationActions

SpecML == InitML /\ [][NextML]_vars

(***************************** price_service tables ************************)
\* DISTRICT_MANDI_DISTANCE: district -> the (mandi, km) pairs in table order
DISTRICT_MANDI_DISTANCE ==
       (<<"n","a","s","h","i","k">> :> << << <<"N","a","s","h","i","k">>, 15 >>, << <<"P","u","n","e">>, 210 >>, << <<"M","u","m","b","a","i">>, 170 >>, << <<"A","u","r","a","n","g","a","b","a","d">>, 240 >> >>)
    @@ (<<"p","u","n","e">> :> << << <<"P","u","n","e">>, 10 >>, << <<"N","a","s","h","i","k">>, 210 >>, << <<"M","u","m","b","a","i">>, 160 >>, << <<"S","o","l","a","p","u","r">>, 240 >> >>)
    @@ (<<"n","a","g","p","u","r">> :> << << <<"N","a","g","p","u","r">>, 12 >>, << <<"A","m","r","a","v","a","t","i">>, 150 >>, << <<"W","a","r","d","h","a">>, 75 >> >>)
    @@ (<<"a","m","r","a","v","a","t","i">> :> << << <<"A","m","r","a","v","a","t","i">>, 10 >>, << <<"N","a","g","p","u","r">>, 150 >>, << <<"A","k","o","l","a">>, 110 >> >>)
    @@ (<<"k","o","l","h","a","p","u","r">> :> << << <<"K","o","l","h","a","p","u","r">>, 8 >>, << <<"P","u","n","e">>, 230 >>, << <<"S","a","n","g","l","i">>, 50 >> >>)
    @@ (<<"a","u","r","a","n","g","a","b","a","d">> :> << << <<"A","u","r","a","n","g","a","b","a","d">>, 10 >>, << <<"N","a","s","h","i","k">>, 240 >>, << <<"L","a","t","u","r">>, 200 >> >>)
    @@ (<<"i","n","d","o","r","e">> :> << << <<"I","n","d","o","r","e">>, 12 >>, << <<"B","h","o","p","a","l">>, 195 >>, << <<"U","j","j","a","i","n">>, 55 >> >>)
    @@ (<<"b","h","o","p","a","l">> :> << << <<"B","h","o","p","a","l">>, 10 >>, << <<"I","n","d","o","r","e">>, 195 >>, << <<"S","a","g","a","r">>, 180 >> >>)
    @@ (<<"d","e","f","a","u","l","t">> :> << << <<"L","o","c","a","l"," ","A","P","M","C">>, 20 >>, << <<"N","e","a","r","e","s","t"," ","C","i","t","y"," ","A","P","M","C">>, 100 >>, << <<"D","i","s","t","r","i","c","t"," ","H","Q"," ","A","P","M","C">>, 60 >> >>)

\* YIELD_KG_PER_ACRE
YIELD_KG_PER_ACRE ==
       (<<"t","o","m","a","t","o">> :> 8000)
    @@ (<<"w","h","e","a","t">> :> 1500)
    @@ (<<"r","i","c","e">> :> 1800)
    @@ (<<"o","n","i","o","n">> :> 10000)
    @@ (<<"p","o","t","a","t","o">> :> 12000)
    @@ (<<"s","o","y","b","e","a","n">> :> 900)
    @@ (<<"c","o","t","t","o","n">> :> 500)
    @@ (<<"m","a","i","z","e">> :> 2000)
    @@ (<<"c","h","i","c","k","p","e","a">> :> 800)
    @@ (<<"d","e","f","a","u","l","t">> :> 2000)

\* CROP_COMMODITY_MAP
CROP_COMMODITY_MAP ==
       (<<"t","o","m","a","t","o">> :> << <<"T","o","m","a","t","o">> >>)
    @@ (<<"w","h","e","a","t">> :> << <<"W","h","e","a","t">> >>)
    @@ (<<"r","i","c","e">> :> << <<"P","a","d","d","y">>, <<"R","i","c","e">> >>)
    @@ (<<"o","n","i","o","n">> :> << <<"O","n","i","o","n">> >>)
    @@ (<<"p","o","t","a","t","o">> :> << <<"P","o","t","a","t","o">> >>)
    @@ (<<"s","o","y","b","e","a","n">> :> << <<"S","o","y","a","b","e","a","n">>, <<"S","o","y","b","e","a","n">> >>)
    @@ (<<"c","o","t","t","o","n">> :> << <<"C","o","t","t","o","n">> >>)
    @@ (<<"m","a","i","z","e">> :> << <<"M","a","i","z","e">> >>)
    @@ (<<"c","h","i","c","k","p","e","a">> :> << <<"B","e","n","g","a","l"," ","G","r","a","m">>, <<"C","h","i","c","k","p","e","a">> >>)

\* MOCK_BASE_PRICES: (market, price, transport), money in paise per kg
MOCK_BASE_PRICES ==
       (<<"t","o","m","a","t","o">> :> << << <<"N","a","s","h","i","k"," ","A","P","M","C">>, 2850, 210 >>,
            << <<"P","u","n","e"," ","A","P","M","C">>, 3100, 580 >>,
            << <<"A","u","r","a","n","g","a","b","a","d"," ","A","P","M","C">>, 2400, 320 >> >>)
    @@ (<<"w","h","e","a","t">> :> << << <<"I","n","d","o","r","e"," ","A","P","M","C">>, 2150, 120 >>,
            << <<"B","h","o","p","a","l"," ","A","P","M","C">>, 2080, 95 >>,
            << <<"L","o","c","a","l"," ","D","e","a","l","e","r">>, 1980, 0 >> >>)
    @@ (<<"r","i","c","e">> :> << << <<"N","a","g","p","u","r"," ","A","P","M","C">>, 2200, 180 >>,
            << <<"A","m","r","a","v","a","t","i"," ","A","P","M","C">>, 2050, 120 >>,
            << <<"W","a","r","d","h","a"," ","A","P","M","C">>, 1900, 80 >> >>)
    @@ (<<"o","n","i","o","n">> :> << << <<"L","a","s","a","l","g","a","o","n"," ","A","P","M","C">>, 1850, 180 >>,
            << <<"N","a","s","h","i","k"," ","A","P","M","C">>, 1600, 210 >>,
            << <<"M","u","m","b","a","i"," ","V","a","s","h","i">>, 2000, 650 >> >>)
    @@ (<<"p","o","t","a","t","o">> :> << << <<"A","g","r","a"," ","A","P","M","C">>, 1400, 200 >>,
            << <<"K","a","n","p","u","r"," ","A","P","M","C">>, 1350, 160 >>,
            << <<"L","o","c","a","l"," ","M","a","r","k","e","t">>, 1100, 30 >> >>)
    @@ (<<"s","o","y","b","e","a","n">> :> << << <<"I","n","d","o","r","e"," ","A","P","M","C">>, 4200, 150 >>,
            << <<"B","h","o","p","a","l"," ","A","P","M","C">>, 4150, 120 >>,
            << <<"D","e","w","a","s"," ","A","P","M","C">>, 4000, 80 >> >>)
    @@ (<<"c","o","t","t","o","n">> :> << << <<"A","k","o","l","a"," ","A","P","M","C">>, 6500, 180 >>,
            << <<"A","m","r","a","v","a","t","i"," ","A","P","M","C">>, 6300, 150 >>,
            << <<"N","a","g","p","u","r"," ","A","P","M","C">>, 6100, 220 >> >>)
    @@ (<<"m","a","i","z","e">> :> << << <<"D","a","v","a","n","g","e","r","e"," ","A","P","M","C">>, 1800, 140 >>,
            << <<"H","u","b","l","i"," ","A","P","M","C">>, 1750, 180 >>,
            << <<"D","h","a","r","w","a","d"," ","A","P","M","C">>, 1700, 120 >> >>)
    @@ (<<"d","e","f","a","u","l","t">> :> << << <<"L","o","c","a","l"," ","A","P","M","C">>, 2000, 150 >>,
            << <<"D","i","s","t","r","i","c","t"," ","A","P","M","C">>, 1900, 120 >>,
            << <<"C","i","t","y"," ","M","a","r","k","e","t">>, 1800, 200 >> >>)

\* TRANSPORT_RATE_PER_KM = 0.15; round(0.15 * km / 100, 2) in paise.  Where
\* 0.15 * km is an exact half paise the double nearest to 0.15 * km / 100
\* decides the direction: upward for these distances of the table, downward
\* for the others (10, 50 and 230 km).
HalfPaiseRoundsUp == {110, 150, 170, 210}

TransportPaise(km) ==
    IF (15 * km) % 100 = 50
    THEN IF km \in HalfPaiseRoundsUp THEN (15 * km + 50) \div 100 ELSE (15 * km - 50) \div 100
    ELSE RoundHalfEven(15 * km, 100)

default == <<"d","e","f","a","u","l","t">>

\* DISTRICT_MANDI_DISTANCE.get(district.lower(), DISTRICT_MANDI_DISTANCE["default"])
DistMap(district) ==
    IF Lower(district) \in DOMAIN DISTRICT_MANDI_DISTANCE
    THEN DISTRICT_MANDI_DISTANCE[Lower(district)]
    ELSE DISTRICT_MANDI_DISTANCE[default]

IntLess(a, b) == a < b

\* sorted(dist_map.values())[len(dist_map) // 2]
MedianKm(dist_map) ==
    StableSort([i \in DOMAIN dist_map |-> dist_map[i][2]], IntLess)[(Len(dist_map) \div 2) + 1]

MandiMatches(mandi_key, market) ==
    LET m == Lower(market)
        k == Lower(mandi_key)
    IN  Contains(m, k) \/ Contains(k, m)

\* the distance _get_transport_cost charges for: the first mandi of the
\* district's table whose name contains, or is contained in, the market
\* name; the median distance of the table when there is none
ChargedKm(district, market) ==
    LET dist_map == DistMap(district)
        hits == {i \in DOMAIN dist_map : MandiMatches(dist_map[i][1], market)}
    IN  IF hits # {}
        THEN dist_map[CHOOSE i \in hits : \A j \in hits : i <= j][2]
        ELSE MedianKm(dist_map)

get_transport_cost(district, market) == TransportPaise(ChargedKm(district, market))

\* dist_map.get(o["market"], 80.0)
ReportedKm(district, market) ==
    LET dist_map == DistMap(district)
        hits == {i \in DOMAIN dist_map : dist_map[i][1] = market}
    IN  IF hits # {} THEN dist_map[CHOOSE i \in hits : TRUE][2] ELSE 80

(***************************** the price table *****************************)
\* one row of commodity_price.csv; the modal price is the text of the cell
MkRow(state, market, commodity, modal, arrival) ==
    [ State |-> state, Market |-> market, Commodity |-> commodity,
      Modal_Price |-> modal, Arrival_Date |-> arrival ]

PriceRowCatalogue ==
    << MkRow(<<"M","a","h","a","r","a","s","h","t","r","a">>, <<"P","u","n","e">>, <<"T","o","m","a","t","o">>, <<"2","0","0","0">>, 1),
       MkRow(<<"M","a","h","a","r","a","s","h","t","r","a">>, <<"M","u","m","b","a","i">>, <<"T","o","m","a","t","o">>, <<"2","0","0","0">>, 2),
       MkRow(<<"M","a","h","a","r","a","s","h","t","r","a">>, <<"A","u","r","a","n","g","a","b","a","d">>, <<"T","o","m","a","t","o">>, <<"2","0","0","0">>, 3),
       MkRow(<<"M","a","h","a","r","a","s","h","t","r","a">>, <<"K","o","l","h","a","p","u","r">>, <<"T","o","m","a","t","o">>, <<"2","0","0","0">>, 4),
       MkRow(<<"M","a","h","a","r","a","s","h","t","r","a">>, <<"S","o","l","a","p","u","r">>, <<"T","o","m","a","t","o">>, <<"2","0","0","0">>, 5),
       MkRow(<<"M","a","h","a","r","a","s","h","t","r","a">>, <<"N","a","s","h","i","k">>, <<"T","o","m","a","t","o">>, <<"1","9","9","0">>, 6),
       MkRow(<<"M","a","h","a","r","a","s","h","t","r","a">>, <<"N","a","s","h","i","k">>, <<"T","o","m","a","t","o">>, <<"1","9","5","0">>, 7),
       MkRow(<<"P","u","n","j","a","b">>, <<"L","u","d","h","i","a","n","a">>, <<"T","o","m","a","t","o">>, <<"2","4","0","0">>, 8),
       MkRow(<<"M","a","h","a","r","a","s","h","t","r","a">>, <<"P","u","n","e">>, <<"O","n","i","o","n">>, <<"4","0">>, 9),
       MkRow(<<"M","a","h","a","r","a","s","h","t","r","a">>, <<"L","a","s","a","l","g","a","o","n">>, <<"T","o","m","a","t","o">>, <<"N","R">>, 10),
       MkRow(<<"M","a","h","a","r","a","s","h","t","r","a">>, <<"M","u","m","b","a","i">>, <<"O","n","i","o","n">>, <<"0">>, 11) >>

\* the files the model reads: the rows of the catalogue kept in file order
FileOf(keep) ==
    LET idx == StableSort([k \in 1..Cardinality(keep) |->
                   CHOOSE i \in keep : Cardinality({j \in keep : j < i}) = k - 1], IntLess)
    IN  [k \in DOMAIN idx |-> PriceRowCatalogue[idx[k]]]

CsvFiles ==
    { [exists |-> TRUE, parses |-> TRUE, rows |-> FileOf(keep)] :
        keep \in {k \in SUBSET (DOMAIN PriceRowCatalogue) : Cardinality(k) <= MaxRows} }

DigitChars == {Digits[i] : i \in DOMAIN Digits}

IsNumeric(txt) == txt # <<>> /\ \A i \in DOMAIN txt : txt[i] \in DigitChars

RECURSIVE ParseDigits(_)
ParseDigits(txt) ==
    IF txt = <<>> THEN 0
    ELSE 10 * ParseDigits(SubSeq(txt, 1, Len(txt) - 1)) + (CharCode(txt[Len(txt)]) - CharCode("0"))

\* the frame _load_price_df builds: rows without a numeric modal price
\* dropped, the lower-cased and stripped columns added
LoadedFrame(rows) ==
    LET kept == SelectSeq(rows, LAMBDA r : IsNumeric(r.Modal_Price))
    IN  [i \in DOMAIN kept |->
            [ State |-> kept[i].State, Market |-> kept[i].Market,
              Commodity |-> kept[i].Commodity,
              modal_price |-> ParseDigits(kept[i].Modal_Price),
              Arrival_Date |-> kept[i].Arrival_Date,
              Commodity_lower |-> Strip(Lower(kept[i].Commodity)),
              State_lower |-> Strip(Lower(kept[i].State)) ]]

\* the body of _load_price_df run on a file: pd.read_csv raises
\* FileNotFoundError for a missing file and pandas.errors.ParserError for one
\* it cannot tokenize
LoadPriceDf(file) ==
    IF ~file.exists THEN [raised |-> "FileNotFoundError", rows |-> <<>>]
    ELSE IF ~file.parses THEN [raised |-> "ParserError", rows |-> <<>>]
    ELSE [raised |-> "none", rows |-> LoadedFrame(file.rows)]

(***************************** get_market_options **************************)
\* _commodity_keywords
CommodityKeywords(crop) ==
    IF Lower(crop) \in DOMAIN CROP_COMMODITY_MAP
    THEN {Lower(CROP_COMMODITY_MAP[Lower(crop)][i]) : i \in DOMAIN CROP_COMMODITY_MAP[Lower(crop)]}
    ELSE {Lower(Title(crop))}

\* _filter_by_crop
FilterByCrop(df, crop) ==
    LET keywords == CommodityKeywords(crop)
    IN  SelectSeq(df, LAMBDA r : \E k \in keywords : Contains(r.Commodity_lower, k))

\* df_crop[df_crop["State_lower"].str.contains(state_clean[:6])]
FilterByState(df_crop, state) ==
    LET state_clean == UnderscoreToSpace(Lower(state))
        head6 == Slice(state_clean, 0, 6)
    IN  SelectSeq(df_crop, LAMBDA r : Contains(r.State_lower, head6))

WorkingFrame(df, crop, state) ==
    LET df_crop == FilterByCrop(df, crop)
        df_state == FilterByState(df_crop, state)
    IN  IF Len(df_state) >= 2 THEN df_state ELSE df_crop

\* land_size * YIELD_KG_PER_ACRE.get(crop.lower(), YIELD_KG_PER_ACRE["default"]),
\* a fraction <<numerator, denominator>> of a kilogram
YieldKg(crop, land_size) ==
    LET per_acre == IF Lower(crop) \in DOMAIN YIELD_KG_PER_ACRE
                    THEN YIELD_KG_PER_ACRE[Lower(crop)] ELSE YIELD_KG_PER_ACRE[default]
    IN  <<land_size[1] * per_acre, land_size[2]>>

\* working_df.groupby("Market")["modal_price"].agg(["mean", "count"]):
\* one row per market, markets in ascending order, the mean kept as sum/count
MarketAggregate(working_df) ==
    LET names == {working_df[i].Market : i \in DOMAIN working_df}
        group(m) == LET of == SelectSeq(working_df, LAMBDA r : r.Market = m)
                    IN  [ Market |-> m,
                          total |-> SeqSum([i \in DOMAIN of |-> of[i].modal_price]),
                          data_points |-> Len(of) ]
        rank == [m \in names |-> Cardinality({o \in names : LexLess(o, m)}) + 1]
    IN  [k \in 1..Cardinality(names) |-> group(CHOOSE m \in names : rank[m] = k)]

AvgPriceGreater(a, b) == a.total * b.data_points > b.total * a.data_points

\* mkt_agg.nlargest(5, "avg_price")
TopByPrice(mkt_agg) == Slice(StableSort(mkt_agg, AvgPriceGreater), 0, 5)

\* round(avg_price / 100, 2), or round(avg_price, 2) when that is below 0.5
PricePerKg(row) ==
    LET per_quintal == RoundHalfEven(row.total, row.data_points)
    IN  IF per_quintal < 50 THEN RoundHalfEven(100 * row.total, row.data_points)
        ELSE per_quintal

\* round(net_per_kg * yield_kg, 0), in rupees
NetProfit(net_per_kg, yield_kg) ==
    RoundHalfEven(net_per_kg * yield_kg[1], 100 * yield_kg[2])

\* the dict appended to options for one row of mkt_agg
PricedOption(row, district, yield_kg) ==
    LET price_per_kg == PricePerKg(row)
        transport == get_transport_cost(district, row.Market)
        net_per_kg == Max(0, price_per_kg - transport)
    IN  [ market |-> row.Market, price_per_kg |-> price_per_kg,
          transport |-> transport, net_profit |-> NetProfit(net_per_kg, yield_kg) ]

\* the rows _price_trend looks at: those of df_crop whose market name holds
\* the first 6 characters of the market's, sorted by Arrival_Date
TrendRows(df_crop, market) ==
    LET head6 == Slice(Lower(market), 0, 6)
        sub == SelectSeq(df_crop, LAMBDA r : Contains(Lower(r.Market), head6))
        pos == [i \in DOMAIN sub |->
                  Cardinality({j \in DOMAIN sub : sub[j].Arrival_Date < sub[i].Arrival_Date}) + 1]
    IN  [k \in DOMAIN sub |-> sub[CHOOSE i \in DOMAIN sub : pos[i] = k]]

\* sub.tail(5)
TrendRecent(sub) == Slice(sub, Max(0, Len(sub) - 5), Len(sub))

\* sub.head(max(1, len(sub) - 5))
TrendOlder(sub) == Slice(sub, 0, Max(1, Len(sub) - 5))

\* _price_trend: the text, as its kind and the change in tenths of a percent
PriceTrend(df_crop, market) ==
    LET sub == TrendRows(df_crop, market)
        recent == TrendRecent(sub)
        older == TrendOlder(sub)
        recent_sum == SeqSum([i \in DOMAIN recent |-> recent[i].modal_price])
        older_sum == SeqSum([i \in DOMAIN older |-> older[i].modal_price])
    IN  IF Len(sub) < 2 THEN [text |-> "Insufficient data for trend", change |-> 0]
        ELSE IF older_sum = 0 THEN [text |-> "Stable", change |-> 0]
        ELSE [ text |-> "% recent trend",
               change |-> RoundHalfEven(
                   1000 * (recent_sum * Len(older) - older_sum * Len(recent)),
                   older_sum * Len(recent)) ]

NetProfitGreater(a, b) == a.net_profit > b.net_profit

\* int(min(100, (net_profit / best_profit) * 80 + 20)) for best_profit > 0
BarWidth(net_profit, best_profit) ==
    Min(100, FloorDiv(net_profit * 80 + 20 * best_profit, best_profit))

IsBestAmongTies(i, options) == options[i].net_profit = options[1].net_profit

\* is_best = (i == 0), i counted from 1 here
IsBest(i, options) == i = 1

\* lines 173-233: the ranking over a non-empty working frame
RankedOptions(working_df, df_crop, district, yield_kg) ==
    LET mkt_agg == TopByPrice(MarketAggregate(working_df))
        options == StableSort([k \in DOMAIN mkt_agg |-> PricedOption(mkt_agg[k], district, yield_kg)],
                              NetProfitGreater)
        best_profit == IF options[1].net_profit > 0 THEN options[1].net_profit ELSE 1
        top == Slice(options, 0, 3)
    IN  [i \in DOMAIN top |->
            [ name |-> top[i].market,
              is_best |-> IsBest(i, top),
              price_per_kg |-> top[i].price_per_kg,
              transport_cost |-> top[i].transport,
              net_profit |-> top[i].net_profit,
              bar_width |-> IF best_profit > 0 THEN BarWidth(top[i].net_profit, best_profit) ELSE 40,
              distance_km |-> <<ReportedKm(district, top[i].market), 1>>,
              trend |-> PriceTrend(df_crop, top[i].market) ]]

\* MOCK_BASE_PRICES.get(crop.lower(), MOCK_BASE_PRICES["default"])
MockEntries(crop) ==
    IF Lower(crop) \in DOMAIN MOCK_BASE_PRICES
    THEN MOCK_BASE_PRICES[Lower(crop)] ELSE MOCK_BASE_PRICES[default]

\* _mock_market_options: the division by best_profit raises when the first
\* entry's rounded profit is 0
mock_market_options(crop, district, land_size, yield_kg) ==
    LET entries == MockEntries(crop)
        net(i) == NetProfit(entries[i][2] - entries[i][3], yield_kg)
        best_profit == net(1)
    IN  IF best_profit = 0
        THEN [raised |-> "ZeroDivisionError", options |-> <<>>]
        ELSE [raised |-> "none",
              options |-> [i \in DOMAIN entries |->
                  [ name |-> entries[i][1],
                    is_best |-> (i = 1),
                    price_per_kg |-> entries[i][2],
                    transport_cost |-> entries[i][3],
                    net_profit |-> net(i),
                    bar_width |-> BarWidth(net(i), best_profit),
                    \* transport / TRANSPORT_RATE_PER_KM * 100
                    distance_km |-> <<entries[i][3] * 20, 3>>,
                    trend |-> [ text |-> IF i = 1 THEN "Seasonal demand rising" ELSE "Stable",
                                change |-> 0 ] ]]]

\* get_market_options over the loaded frame df
get_market_options(df, crop, state, district, land_size) ==
    LET yield_kg == YieldKg(crop, land_size)
        working_df == WorkingFrame(df, crop, state)
    IN  IF Len(working_df) = 0
        THEN mock_market_options(crop, district, land_size, yield_kg)
        ELSE [raised |-> "none",
              options |-> RankedOptions(working_df, FilterByCrop(df, crop), district, yield_kg)]

(***************************** the market ranker as a machine **************)
maharashtra    == <<"m","a","h","a","r","a","s","h","t","r","a">>
punjab         == <<"p","u","n","j","a","b">>
nashik         == <<"n","a","s","h","i","k">>
satara         == <<"s","a","t","a","r","a">>

RequestStates == {maharashtra, punjab}
\* a district of the distance table and one it does not know
RequestDistricts == {nashik, satara}
\* land_size as <<numerator, denominator>> acres: a millionth of an acre and 2.5 acres
LandSizes == {<<1, 1000000>>, <<5, 2>>}

InitMarket ==
    /\ pc = "boot"
    /\ today = FirstDay
    /\ weather = MkForecast(<<>>)
    /\ call = NoCall
    /\ csv \in CsvFiles \cup {NoFile, MalformedFile}
    /\ price_df = Unloaded
    /\ env = NoEnv
    /\ responses = <<>>
    /\ loads = 0

\* main.lifespan: the frame pre-loaded at startup; a failed load is logged
\* and the application starts without it
Lifespan ==
    /\ pc = "boot"
    /\ LET load == LoadPriceDf(csv)
       IN  price_df' = IF load.raised = "none" THEN [loaded |-> TRUE, rows |-> load.rows]
                       ELSE price_df
    /\ loads' = loads + 1
    /\ pc' = "ready"
    /\ UNCHANGED <<today, weather, call, csv, env, responses>>

\* _load_price_df under lru_cache(maxsize=1): the cached frame when there is
\* one, else the file read and the frame cached; a failed read caches nothing
GetMarketOptions ==
    /\ pc = "ready"
    /\ \E crop \in CropNames, state \in RequestStates,
          district \in RequestDistricts, land_size \in LandSizes :
         LET args == [ fn |-> "get_market_options", crop |-> crop, state |-> state,
                       district |-> district, land_size |-> land_size ]
             load == IF price_df.loaded THEN [raised |-> "none", rows |-> price_df.rows]
                     ELSE LoadPriceDf(csv)
         IN  IF load.raised # "none"
             THEN /\ call' = args @@ [raised |-> load.raised, result |-> <<>>]
                  /\ price_df' = price_df
             ELSE LET out == get_market_options(load.rows, crop, state, district, land_size)
                  IN  /\ call' = args @@ [raised |-> out.raised, result |-> out.options]
                      /\ price_df' = [loaded |-> TRUE, rows |-> load.rows]
    /\ loads' = IF price_df.loaded THEN loads ELSE loads + 1
    /\ pc' = "returned"
    /\ UNCHANGED <<today, weather, csv, env, responses>>

NextMarket == Lifespan \/ GetMarketOptions

SpecMarket == InitMarket /\ [][NextMarket]_vars

(***************************** weather_service ****************************)
\* MONTHLY_PROFILE: degrees C, percent, and rain_prob in ten-thousandths
MONTHLY_PROFILE ==
    <<
       [tmax |-> 28, tmin |-> 12, hum |-> 55, rain_prob |-> 500],
       [tmax |-> 32, tmin |-> 15, hum |-> 45, rain_prob |-> 500],
       [tmax |-> 37, tmin |-> 19, hum |-> 35, rain_prob |-> 800],
       [tmax |-> 41, tmin |-> 23, hum |-> 30, rain_prob |-> 1000],
       [tmax |-> 43, tmin |-> 26, hum |-> 35, rain_prob |-> 1500],
       [tmax |-> 35, tmin |-> 25, hum |-> 75, rain_prob |-> 5500],
       [tmax |-> 32, tmin |-> 24, hum |-> 85, rain_prob |-> 7000],
       [tmax |-> 31, tmin |-> 23, hum |-> 88, rain_prob |-> 6500],
       [tmax |-> 32, tmin |-> 23, hum |-> 78, rain_prob |-> 4500],
       [tmax |-> 33, tmin |-> 20, hum |-> 65, rain_prob |-> 2000],
       [tmax |-> 30, tmin |-> 15, hum |-> 55, rain_prob |-> 800],
       [tmax |-> 27, tmin |-> 11, hum |-> 50, rain_prob |-> 500] >>

\* the calendar date <<year, month, day>> of day ordinal 0
Epoch == <<2024, 6, 26>>

IsLeap(y) == (y % 4 = 0 /\ y % 100 # 0) \/ y % 400 = 0

DaysInMonth(y, m) ==
    IF m = 2 THEN (IF IsLeap(y) THEN 29 ELSE 28)
    ELSE IF m \in {4, 6, 9, 11} THEN 30 ELSE 31

\* d + timedelta(days=1)
NextDate(d) ==
    IF d[3] < DaysInMonth(d[1], d[2]) THEN <<d[1], d[2], d[3] + 1>>
    ELSE IF d[2] < 12 THEN <<d[1], d[2] + 1, 1>>
    ELSE <<d[1] + 1, 1, 1>>

RECURSIVE DateOf(_)
\* the calendar date of a day ordinal
DateOf(n) == IF n = 0 THEN Epoch ELSE NextDate(DateOf(n - 1))

\* district spellings a caller may pass
NashikPadded == <<" ","N","a","s","h","i","k"," ">>
PUNE         == <<"P","U","N","E">>
RawDistricts == {nashik, NashikPadded, PUNE}

\* int(md5(f"{district}:{d.isoformat()}").hexdigest(), 16) % 10000 for the
\* district texts the model can hash and the dates of day ordinals 0..21:
\* SeedTable[district][n + 1] is the value for day ordinal n
SeedTable ==
    (<<" ","N","a","s","h","i","k"," ">> :> <<3747, 6170, 9330, 4131, 2538, 2879, 2163, 5670, 9277, 7612, 4652, 5474, 1365, 794, 3764, 6181, 7707, 3825, 7978, 5519, 6029, 6138>>) @@
    (<<" ","n","a","s","h","i","k"," ">> :> <<170, 9127, 9697, 9956, 6009, 8363, 2177, 8225, 6660, 1619, 2515, 8439, 1147, 7772, 2253, 1189, 3614, 7604, 8624, 8703, 3182, 8124>>) @@
    (<<"N","a","s","h","i","k">> :> <<4283, 2932, 4659, 6145, 3271, 3151, 9833, 5629, 7909, 6636, 4437, 7582, 218, 296, 4604, 3166, 9135, 7186, 4833, 267, 176, 4160>>) @@
    (<<"P","U","N","E">> :> <<120, 7898, 5645, 4218, 8395, 8805, 7591, 5801, 3752, 6971, 9011, 1688, 8810, 7143, 7789, 7673, 927, 6436, 6141, 2725, 5455, 1379>>) @@
    (<<"n","a","s","h","i","k">> :> <<4218, 6607, 7456, 9932, 2126, 5322, 4911, 7574, 8432, 5700, 2910, 1926, 9844, 73, 331, 457, 1600, 9080, 5537, 7477, 9158, 47>>) @@
    (<<"p","u","n","e">> :> <<904, 9445, 2253, 77, 8194, 1114, 2601, 2882, 4811, 9698, 5793, 1400, 3757, 3017, 8612, 2136, 3171, 6853, 3420, 4343, 199, 8610>>) @@
    (<<"s","u","r","a","t">> :> <<9177, 7264, 8437, 423, 9503, 7056, 9392, 3, 7519, 7938, 2294, 1693, 1079, 5766, 2590, 3255, 733, 8938, 682, 4353, 6185, 6255>>)

\* _deterministic_seed, in ten-thousandths
deterministic_seed(district, d) == SeedTable[district][d + 1]

\* round(x, 1) of a binary float that lies halfway between two tenths goes the
\* way the float's error points. For the seeds of SeedTable no temperature is
\* such a tie; the humidity ties that go up are these <<profile hum, seed>>
\* pairs and the rainfall ties that go up are these seeds; the others go down.
HumidityTieUp ==
    { <<30, 8225>>, <<35, 8225>>, <<45, 2725>>, <<45, 8225>>, <<50, 2725>>, <<50, 8225>>,
      <<55, 2725>>, <<55, 8225>>, <<65, 2725>>, <<65, 8225>>, <<75, 2725>>, <<75, 3825>>,
      <<75, 8225>>, <<78, 2725>>, <<78, 3825>>, <<78, 8225>>, <<85, 2725>>, <<85, 3825>>,
      <<85, 8225>>, <<88, 2725>>, <<88, 3825>>, <<88, 8225>> }

RainfallTieUp == {3420, 6660}

\* n/d rounded to the nearest integer, a tie going up exactly when up holds
RoundTie(n, d, up) ==
    LET q == FloorDiv(n, d)
        r == n - q * d
    IN  IF 2 * r < d THEN q
        ELSE IF 2 * r > d THEN q + 1
        ELSE IF up THEN q + 1 ELSE q

\* os.getenv(name, dflt)
Getenv(name, dflt) == IF name \in DOMAIN env THEN env[name] ELSE dflt

\* USE_REAL_API = os.getenv("USE_REAL_WEATHER", "false").lower() == "true"
USE_REAL_API == Lower(Getenv("USE_REAL_WEATHER", <<"f","a","l","s","e">>)) = <<"t","r","u","e">>

\* OWM_API_KEY = os.getenv("OWM_API_KEY", "")
OWM_API_KEY == Getenv("OWM_API_KEY", <<>>)

NormDistrictNoStrip(district) == Lower(district)

\* district = district.lower().strip()
NormDistrict(district) == Strip(Lower(district))

\* one WeatherDay of the mock: the body of the for loop, lines 81-109
MockDay(district, profile, d) ==
    LET seed == deterministic_seed(district, d)
        \* variation = (seed - 0.5) * 6
        tmax == RoundHalfEven(10000 * profile.tmax + 6 * (seed - 5000), 1000)
        tmin == RoundHalfEven(100000 * profile.tmin + 36 * (seed - 5000), 10000)
        humidity == Max(200, Min(1000,
                        RoundTie(500 * profile.hum + (seed - 5000), 50,
                                 <<profile.hum, seed>> \in HumidityTieUp)))
        is_rain == seed < profile.rain_prob
        rainfall == IF is_rain THEN RoundTie(seed, 40, seed \in RainfallTieUp) ELSE 0
    IN  [ date |-> DateOf(d),
          temp_max_c |-> tmax,
          temp_min_c |-> tmin,
          humidity_pct |-> humidity,
          rainfall_mm |-> rainfall,
          condition |-> IF is_rain THEN "rain"
                        ELSE IF humidity > 700 THEN "cloudy" ELSE "sunny" ]

\* _mock_weather_forecast, called on day ordinal now
mock_weather_forecast(district, days, now) ==
    LET normalised == NormDistrict(district)
        profile == MONTHLY_PROFILE[DateOf(now)[2]]
        day_entries == [i \in 1..days |-> MockDay(normalised, profile, now + i - 1)]
    IN  [ location |-> Title(normalised),
          days |-> day_entries,
          avg_temp |-> RoundHalfEven(SeqSum([i \in 1..days |-> day_entries[i].temp_max_c]), days),
          avg_humidity |-> RoundHalfEven(SeqSum([i \in 1..days |-> day_entries[i].humidity_pct]), days),
          rain_days |-> Len(SelectSeq(day_entries, LAMBDA e : e.condition = "rain")) ]

\* get_weather_forecast: _fetch_openweather raises NotImplementedError
get_weather_forecast(district, days, now) ==
    IF USE_REAL_API /\ OWM_API_KEY # <<>>
    THEN [raised |-> "NotImplementedError", forecast |-> MkForecast(<<>>)]
    ELSE [raised |-> "none", forecast |-> mock_weather_forecast(district, days, now)]

(***************************** the weather provider as a machine ***********)
\* days=7, the default get_weather_forecast is called with
DefaultDays == 7

\* values of USE_REAL_WEATHER and of OWM_API_KEY, when set
FlagTexts == {<<"t","r","u","e">>, <<"T","r","u","e">>, <<"f","a","l","s","e">>}
KeyTexts  == {<<>>, <<"k","e","y">>}

Environments ==
    {NoEnv}
    \cup {("USE_REAL_WEATHER" :> f) : f \in FlagTexts}
    \cup {("OWM_API_KEY" :> k) : k \in KeyTexts}
    \cup {("USE_REAL_WEATHER" :> f) @@ ("OWM_API_KEY" :> k) : f \in FlagTexts, k \in KeyTexts}

\* crops and stages of the harvest predictions made on a fetched forecast
PipelineCrops == {tomato, wheat}
PipelineStages == {"ready"}

InitWeather ==
    /\ pc = "serving"
    /\ today = FirstDay
    /\ weather = MkForecast(<<>>)
    /\ call = NoCall
    /\ csv = NoFile
    /\ price_df = Unloaded
    /\ env \in Environments
    /\ responses = <<>>
    /\ loads = 0

\* analyze step 1: weather = await get_weather_forecast(req.district)
GetWeatherForecast ==
    /\ pc = "serving"
    /\ Len(responses) < MaxCalls
    /\ \E district \in RawDistricts :
         LET out == get_weather_forecast(district, DefaultDays, today)
             entry == [ fn |-> "get_weather_forecast", district |-> district,
                        date |-> today, raised |-> out.raised, result |-> out.forecast ]
         IN  /\ call' = entry
             /\ responses' = Append(responses, entry)
             /\ weather' = IF out.raised = "none" THEN out.forecast ELSE weather
    /\ UNCHANGED <<pc, today, csv, price_df, env, loads>>

\* analyze step 2: predict_harvest_window on the forecast of step 1
HarvestOnForecast ==
    /\ pc = "serving"
    /\ Len(responses) < MaxCalls
    /\ weather.days # <<>>
    /\ \E crop \in PipelineCrops, harvest_stage \in PipelineStages :
         LET entry == [ fn |-> "predict_harvest_window", crop |-> crop,
                        harvest_stage |-> harvest_stage, weather |-> weather,
                        date |-> today, raised |-> "none",
                        result |-> predict_harvest_window(crop, harvest_stage, weather, today) ]
         IN  /\ call' = entry
             /\ responses' = Append(responses, entry)
    /\ UNCHANGED <<pc, today, weather, csv, price_df, env, loads>>

\* the calendar day changes while the process keeps running
Midnight ==
    /\ pc = "serving"
    /\ today < FirstDay + MaxMidnights
    /\ today' = today + 1
    /\ UNCHANGED <<pc, weather, call, csv, price_df, env, responses, loads>>

NextWeather == GetWeatherForecast \/ HarvestOnForecast \/ Midnight

SpecWeather == InitWeather /\ [][NextWeather]_vars

(***************************** the mock provider as a machine **************)
surat == <<"s","u","r","a","t">>

\* districts the mock is asked about; every text is a district to it
MockDistricts == {nashik, PUNE, surat}

\* _mock_weather_forecast(district, days) called on the calendar day today
MockWeatherForecast ==
    /\ pc = "serving"
    /\ \E district \in MockDistricts, days \in 1..MaxDays :
         call' = [ fn |-> "mock_weather_forecast", district |-> district,
                   days |-> days, date |-> today,
                   result |-> mock_weather_forecast(district, days, today) ]
    /\ UNCHANGED <<pc, today, weather, csv, price_df, env, responses, loads>>

InitMock ==
    /\ pc = "serving"
    /\ today = FirstDay
    /\ weather = MkForecast(<<>>)
    /\ call = NoCall
    /\ csv = NoFile
    /\ price_df = Unloaded
    /\ env = NoEnv
    /\ responses = <<>>
    /\ loads = 0

NextMock == MockWeatherForecast \/ Midnight

SpecMock == InitMock /\ [][NextMock]_vars

(***************************** build_confidence ****************************)
\* the keys of DISTRICT_COORDS
DISTRICT_COORDS ==
    { <<"n","a","s","h","i","k">>, <<"p","u","n","e">>,
      <<"n","a","g","p","u","r">>, <<"a","m","r","a","v","a","t","i">>,
      <<"k","o","l","h","a","p","u","r">>, <<"a","u","r","a","n","g","a","b","a","d">>,
      <<"i","n","d","o","r","e">>, <<"b","h","o","p","a","l">>,
      <<"j","a","i","p","u","r">>, <<"l","u","c","k","n","o","w">>,
      <<"c","h","a","n","d","i","g","a","r","h">>, <<"a","h","m","e","d","a","b","a","d">>,
      <<"b","e","n","g","a","l","u","r","u">>, <<"h","y","d","e","r","a","b","a","d">>,
      <<"d","e","f","a","u","l","t">> }

\* score before int(min(92, max(55, score))), in tenths of a point
RawConfidence(w, markets, crop, district) ==
    600 + Min(100, 14 * Len(w.days))
        + (IF markets # <<>> /\ markets[1].net_profit > 0 THEN 120 ELSE 0)
        + (IF Lower(district) \in DISTRICT_COORDS THEN 50 ELSE 0)
        + (IF Lower(crop) \in DOMAIN CROP_PROFILE THEN 80 ELSE 0)

ConfidenceScoreRounded(raw) == RoundHalfEven(Min(920, Max(550, raw)), 10)

\* score = int(min(92, max(55, score))), in points
ConfidenceScore(raw) == FloorDiv(Min(920, Max(550, raw)), 10)

\* round(max(5, 20 - score * 0.15), 0)
VariancePct(score) == RoundHalfEven(Max(500, 2000 - 15 * score), 100)

build_confidence(w, markets, crop, district) ==
    LET score == ConfidenceScore(RawConfidence(w, markets, crop, district))
    IN  [score |-> score, variance |-> VariancePct(score)]

(***************************** build_explanation ***************************)
\* the characters of an urgency value
UrgencyChars(urgency) ==
    IF urgency = "urgent" THEN <<"u","r","g","e","n","t">>
    ELSE IF urgency = "normal" THEN <<"n","o","r","m","a","l">>
    ELSE <<"p","l","a","n","_","a","h","e","a","d">>

ClosingSentenceUnlessPlanAhead(urgency) ==
    IF urgency # "plan_ahead"
    THEN "Immediate action recommended to avoid over-ripening."
    ELSE "Plan your harvest crew and transport now."

\* the last sentence of soil_reason
ClosingSentence(urgency) ==
    IF urgency = "urgent"
    THEN "Immediate action recommended to avoid over-ripening."
    ELSE "Plan your harvest crew and transport now."

\* soil_reason, by its interpolated parts: "For {crop}, the {stage} harvest
\* stage means the crop is {maturity}. ... {closing}"
SoilReason(crop, harvest_window) ==
    [ crop     |-> Title(crop),
      stage    |-> UnderscoreToSpace(UrgencyChars(harvest_window.urgency)),
      maturity |-> IF harvest_window.urgency = "normal"
                   THEN "at peak maturity" ELSE "approaching maturity",
      closing  |-> ClosingSentence(harvest_window.urgency) ]

build_explanation(crop, harvest_window) ==
    [ soil_reason |-> SoilReason(crop, harvest_window) ]

(***************************** build_reasoning_steps ***********************)
\* step 04, by the parts of its desc: the loss quoted, the top preservation
\* action it names with its cost and its cut, and the closing advice
StepFour(spoilage) ==
    [ step_num   |-> "04",
      risk_pct   |-> spoilage.risk_pct,
      top_action |-> "early morning harvest",
      top_cost   |-> "free",
      cut_points |-> 8,
      advice     |-> IF spoilage.risk_pct > 40
                     THEN "Cold storage is strongly recommended for best results."
                     ELSE "Simple ventilated crates are sufficient for your risk level." ]

\* step 03 quotes the part of harvest_window.days_from_today before the
\* dash, "In {from}-{to} days"
StepThree(crop, harvest_window) ==
    [ step_num |-> "03",
      crop     |-> Title(crop),
      needs    |-> << harvest_window.days_from_today.from,
                      harvest_window.days_from_today.to >> ]

build_reasoning_steps(crop, harvest_window, spoilage) ==
    << StepThree(crop, harvest_window), StepFour(spoilage) >>

(***************************** explain_service as a machine ****************)
\* market lists handed to build_confidence: none, one whose first option
\* earns nothing, one whose first option earns something
ConfidenceMarkets == { <<>>, <<[net_profit |-> 0]>>, <<[net_profit |-> 83000]>> }

\* districts handed to build_confidence: two of DISTRICT_COORDS, its
\* "default" key, and one it does not hold
ConfidenceDistricts == {nashik, PUNE, default, satara}

ConfidenceCrops == {tomato, WHEAT, chickpea, dragonfruit}

BuildConfidence ==
    /\ pc = "ready"
    /\ \E crop \in ConfidenceCrops, district \in ConfidenceDistricts, markets \in ConfidenceMarkets :
         call' = [ fn |-> "build_confidence", crop |-> crop, district |-> district,
                   markets |-> markets,
                   result |-> build_confidence(weather, markets, crop, district) ]
    /\ pc' = "returned"
    /\ UNCHANGED <<today, weather, csv, price_df, env, responses, loads>>

\* one crop of each perishability class, a crop without a profile, and a
\* crop name in upper case
ExplainCrops == {tomato, wheat, onion, chickpea, WHEAT}

\* the road to the best market of the request, in thousandths of an hour
ExplainTransitHours == {375, 6000}

\* build_explanation on the harvest window predict_harvest_window returned
\* for the same request, as analyze calls it
BuildExplanation ==
    /\ pc = "ready"
    /\ \E crop \in ExplainCrops, harvest_stage \in HarvestStages :
         \E harvest_window \in {predict_harvest_window(crop, harvest_stage, weather, today)} :
            call' = [ fn |-> "build_explanation", crop |-> crop,
                      harvest_stage |-> harvest_stage,
                      harvest_window |-> harvest_window,
                      result |-> build_explanation(crop, harvest_window) ]
    /\ pc' = "returned"
    /\ UNCHANGED <<today, weather, csv, price_df, env, responses, loads>>

\* build_reasoning_steps on the harvest window and the spoilage risk of the
\* same request; preservation is what get_preservation_actions returned for it
BuildReasoningSteps ==
    /\ pc = "ready"
    /\ \E crop \in ExplainCrops, storage_type \in {none, cold},
          transit_hours \in ExplainTransitHours :
         \E harvest_window \in {predict_harvest_window(crop, "ready", weather, today)},
            spoilage \in {predict_spoilage(crop, storage_type, weather, transit_hours)} :
            call' = [ fn |-> "build_reasoning_steps", crop |-> crop,
                      storage_type |-> storage_type,
                      spoilage |-> spoilage,
                      preservation |-> get_preservation_actions(crop, storage_type, spoilage.risk_pct),
                      result |-> build_reasoning_steps(crop, harvest_window, spoilage) ]
    /\ pc' = "returned"
    /\ UNCHANGED <<today, weather, csv, price_df, env, responses, loads>>

NextExplain == BuildConfidence \/ BuildExplanation \/ BuildReasoningSteps

SpecExplain == InitHarvest /\ [][NextExplain]_vars

(***************************** routers/analyze *****************************)
MaxRequests == 2   \* most POST /analyze requests one process serves

\* the except clauses of analyze: pandas.errors.ParserError is a ValueError,
\* FileNotFoundError, ZeroDivisionError and NotImplementedError are not
IsValueError(raised) == raised \in {"ValueError", "ParserError"}

\* the HTTP status of the response
StatusOf(raised) ==
    IF raised = "none" THEN 200
    ELSE IF IsValueError(raised) THEN 422
    ELSE 500

\* transit_hours = best_market.distance_km / 40.0, in thousandths of an hour
TransitHoursOf(distance_km) == RoundHalfEven(25 * distance_km[1], distance_km[2])

\* _load_price_df as get_market_options calls it: the cached frame when
\* there is one, else the body run on the file
CachedLoad(frame, file) ==
    IF frame.loaded THEN [raised |-> "none", rows |-> frame.rows, ran |-> 0]
    ELSE LoadPriceDf(file) @@ [ran |-> 1]

\* what stands for a stage the handler did not get to
NotRun == [raised |-> "not run", rows |-> <<>>, ran |-> 0, options |-> <<>>]

\* the body of the try block, lines 59-152, on the outcome of its weather
\* fetch, of its price-table load and of its market ranking: the stage it
\* stopped in, what was raised there, and the modules of the response
analyze(req, fetched, load, ranked, now) ==
    LET w == fetched.forecast
        markets == ranked.options
        spoilage == predict_spoilage(req.crop_type, req.storage_type, w,
                                     TransitHoursOf(markets[1].distance_km))
        stopped(stage, raised) == [stage |-> stage, raised |-> raised, result |-> <<>>]
    IN  IF fetched.raised # "none" THEN stopped("weather", fetched.raised)
        ELSE IF load.raised # "none" THEN stopped("market", load.raised)
        ELSE IF ranked.raised # "none" THEN stopped("market", ranked.raised)
        ELSE IF markets = <<>> THEN stopped("no_markets", "ValueError")
        ELSE [ stage |-> "done", raised |-> "none",
               result |->
                 [ weather |-> w,
                   harvest_window |->
                       predict_harvest_window(req.crop_type, req.harvest_stage, w, now),
                   markets |-> markets,
                   spoilage_risk |-> spoilage,
                   preservation_actions |->
                       get_preservation_actions(req.crop_type, req.storage_type,
                                                spoilage.risk_pct),
                   confidence |-> build_confidence(w, markets, req.crop_type, req.district) ] ]

(***************************** the API process as a machine ****************)
\* the price file of the process: absent, unreadable, holding no row, holding
\* tomato rows, holding onion rows
PipelineFiles ==
    {NoFile, MalformedFile}
    \cup { [exists |-> TRUE, parses |-> TRUE, rows |-> FileOf(keep)] :
             keep \in {{}, {1, 6, 7}, {9, 11}} }

\* the mock forecast, the real backend with a key, the real backend without
PipelineEnvs ==
    { NoEnv,
      ("USE_REAL_WEATHER" :> <<"t","r","u","e">>) @@ ("OWM_API_KEY" :> <<"k","e","y">>),
      ("USE_REAL_WEATHER" :> <<"t","r","u","e">>) }

\* AnalyzeRequest after its validator: crop_type, state and district are
\* lower-case and stripped, harvest_stage and storage_type are enum values
AnalyzeRequests ==
    [ crop_type : {tomato, rice}, state : {maharashtra}, district : {nashik},
      harvest_stage : {"ready"}, storage_type : {none, cold},
      land_size : LandSizes ]

InitPipeline ==
    /\ pc = "boot"
    /\ today = FirstDay
    /\ weather = MkForecast(<<>>)
    /\ call = NoCall
    /\ csv \in PipelineFiles
    /\ price_df = Unloaded
    /\ env \in PipelineEnvs
    /\ responses = <<>>
    /\ loads = 0

\* POST /analyze: the handler from the request to the response or the
\* HTTPException; fetched, load and ranked are the outcomes of
\* get_weather_forecast, _load_price_df and get_market_options
Analyze ==
    /\ pc = "ready"
    /\ Len(responses) < MaxRequests
    /\ \E req \in AnalyzeRequests :
       \E fetched \in {get_weather_forecast(req.district, DefaultDays, today)} :
       \E load \in {IF fetched.raised = "none" THEN CachedLoad(price_df, csv) ELSE NotRun} :
       \E ranked \in {IF load.raised = "none"
                      THEN get_market_options(load.rows, req.crop_type, req.state,
                                              req.district, req.land_size)
                      ELSE NotRun} :
       \E out \in {analyze(req, fetched, load, ranked, today)} :
         /\ call' = [ fn |-> "analyze", req |-> req, stage |-> out.stage,
                      raised |-> out.raised, status |-> StatusOf(out.raised),
                      result |-> out.result ]
         /\ responses' = Append(responses, [status |-> StatusOf(out.raised),
                                            raised |-> out.raised])
         /\ weather' = IF fetched.raised = "none" THEN fetched.forecast ELSE weather
         /\ price_df' = IF load.ran = 1 /\ load.raised = "none"
                        THEN [loaded |-> TRUE, rows |-> load.rows]
                        ELSE price_df
         /\ loads' = loads + load.ran
    /\ UNCHANGED <<pc, today, csv, env>>

NextPipeline == Lifespan \/ Analyze

SpecPipeline == InitPipeline /\ [][NextPipeline]_vars

(***************************** C1 ******************************************)
\* C1: for every crop name, harvest stage and forecast, predict_harvest_window
\* returns end_date >= start_date with end_date - start_date equal to the crop
\* profile's harvest_window_days - 1, also when the window runs past the last
\* forecast day.
C1_WindowLength ==
    call.fn = "predict_harvest_window" =>
        /\ call.result.end_date >= call.result.start_date
        /\ call.result.end_date - call.result.start_date
             = Profile(call.crop).harvest_window_days - 1

\* a returned window whose last day lies beyond the last day of a non-empty forecast
C1_Witness ==
    /\ call.fn = "predict_harvest_window"
    /\ Len(weather.days) > 0
    /\ call.result.end_date > today + Len(weather.days) - 1
    /\ call.result.start_date <= today + Len(weather.days) - 1

(***************************** C2 ******************************************)
\* C2: for every crop, storage type, forecast and transit time,
\* predict_spoilage returns risk_pct within [5, 95], and risk_level follows
\* from risk_pct alone: Low below 20, Medium from 20 to below 45, High from 45.
C2_RiskBand ==
    call.fn = "predict_spoilage" =>
        /\ call.result.risk_pct >= 5
        /\ call.result.risk_pct <= 95
        /\ (call.result.risk_pct < 20 => call.result.risk_level = "Low")
        /\ (call.result.risk_pct >= 20 /\ call.result.risk_pct < 45
              => call.result.risk_level = "Medium")
        /\ (call.result.risk_pct >= 45 => call.result.risk_level = "High")

\* a call whose summed risk exceeds 95 and is returned as 95, High
C2_Witness ==
    /\ call.fn = "predict_spoilage"
    /\ RawRisk(Profile(call.crop), call.storage_type, weather, call.transit_hours) > 95500
    /\ call.result.risk_pct = 95
    /\ call.result.risk_level = "High"

(***************************** C5 ******************************************)
\* C5: for every crop and every input risk, get_preservation_actions returns
\* N <= 3 actions ranked 1..N in list order, whose spoilage_after values do
\* not increase with rank and are never below 5.
C5_RanksAndResiduals ==
    call.fn = "get_preservation_actions" =>
        LET r == call.result
        IN  /\ Len(r) <= 3
            /\ \A i \in DOMAIN r : r[i].rank = i
            /\ \A i \in DOMAIN r : r[i].spoilage_after >= 5
            /\ \A i \in DOMAIN r : i > 1 => r[i].spoilage_after <= r[i - 1].spoilage_after

\* three ranked actions, the residual falling from rank 1 to rank 2 and held
\* at the floor where the plain subtraction would have gone below it
C5_Witness ==
    /\ call.fn = "get_preservation_actions"
    /\ Len(call.result) = 3
    /\ call.result[2].spoilage_after < call.result[1].spoilage_after
    /\ call.result[3].spoilage_after = 5
    /\ call.spoilage_risk > 5

(***************************** C7 ******************************************)
\* C7: for a crop name absent from the profile table, predict_harvest_window,
\* predict_spoilage and get_preservation_actions return what they return for
\* "tomato" with the other inputs unchanged; for a name that differs from a
\* profiled crop only in letter case they return what they return for the
\* lower-case name.
C7_StandIn(crop) ==
    IF \E k \in DOMAIN CROP_PROFILE : Len(k) = Len(crop)
            /\ \A i \in DOMAIN k : LowerChar(crop[i]) = k[i]
    THEN CHOOSE k \in DOMAIN CROP_PROFILE : Len(k) = Len(crop)
            /\ \A i \in DOMAIN k : LowerChar(crop[i]) = k[i]
    ELSE tomato

C7_UnknownCropIsTomato ==
    /\ call.fn = "predict_harvest_window" =>
         call.result = predict_harvest_window(C7_StandIn(call.crop),
                                              call.harvest_stage, weather, today)
    /\ call.fn = "predict_spoilage" =>
         call.result = predict_spoilage(C7_StandIn(call.crop), call.storage_type,
                                        weather, call.transit_hours)
    /\ call.fn = "get_preservation_actions" =>
         call.result = get_preservation_actions(C7_StandIn(call.crop),
                                                call.storage_type, call.spoilage_risk)

\* the harvest predictor called for "dragonfruit" and answering with tomato's
\* four-day window
C7_Witness ==
    /\ call.fn = "predict_harvest_window"
    /\ call.crop = dragonfruit
    /\ call.result.end_date - call.result.start_date = 3


(***************************** market claims: helpers **********************)
\* a get_market_options call that returned a list
MarketListReturned == call.fn = "get_market_options" /\ call.raised = "none"

\* the rows of the loaded table the request matched
MatchedRows == WorkingFrame(price_df.rows, call.crop, call.state)

\* the call ran over the loaded price table and found matching rows
OnPricePath ==
    call.fn = "get_market_options" /\ price_df.loaded /\ Len(MatchedRows) > 0

\* the call ran over the loaded price table and found no matching row
OnFallbackPath ==
    call.fn = "get_market_options" /\ price_df.loaded /\ Len(MatchedRows) = 0

(***************************** C3 ******************************************)
\* C3: every list get_market_options returns, on the price-table path and on
\* the static-fallback path, is non-empty, has at most 3 options, has
\* is_best = true on the option at index 0 and on no other option.
C3_OneBestFirst ==
    MarketListReturned =>
        /\ Len(call.result) >= 1
        /\ Len(call.result) <= 3
        /\ call.result[1].is_best
        /\ \A i \in 2..Len(call.result) : ~call.result[i].is_best

\* a price-table ranking of 3 options whose first two have the same net profit
C3_Witness ==
    /\ MarketListReturned
    /\ OnPricePath
    /\ Len(call.result) = 3
    /\ call.result[1].net_profit = call.result[2].net_profit
    /\ call.result[1].net_profit > 0

(***************************** C4 ******************************************)
\* C4: the list get_market_options returns is sorted strictly descending by
\* net_profit: each option's net_profit is greater than the next one's, on
\* the price-table path and on the static-fallback path.
C4_StrictlyDescending ==
    MarketListReturned =>
        \A i \in 1..(Len(call.result) - 1) :
            call.result[i].net_profit > call.result[i + 1].net_profit

\* a returned fallback list whose second option earns less than its third
C4_Witness ==
    /\ MarketListReturned
    /\ OnFallbackPath
    /\ Len(call.result) = 3
    /\ call.result[1].net_profit > call.result[2].net_profit
    /\ call.result[2].net_profit < call.result[3].net_profit

(***************************** C6 ******************************************)
\* C6: when no price row matches the crop, get_market_options raises nothing
\* and returns exactly the 3 entries of the crop's static fallback table (the
\* default table for a crop without one), the first with is_best = true.
C6_FallbackServesThree ==
    OnFallbackPath =>
        /\ call.raised = "none"
        /\ Len(call.result) = 3
        /\ \A i \in 1..3 :
              /\ call.result[i].name = MockEntries(call.crop)[i][1]
              /\ call.result[i].price_per_kg = MockEntries(call.crop)[i][2]
              /\ call.result[i].transport_cost = MockEntries(call.crop)[i][3]
        /\ call.result[1].is_best

\* a fallback call that ended in the division by a best profit of zero
C6_Witness ==
    /\ OnFallbackPath
    /\ call.raised = "ZeroDivisionError"
    /\ call.land_size[1] > 0

(***************************** C9 ******************************************)
\* C9: on the price-table path the option marked is_best has the greatest
\* net profit ((per-kg price - transport cost) * yield) among all markets
\* that have matching price rows for the request.
C9_BestIsMaxOverAllMarkets ==
    (OnPricePath /\ call.raised = "none") =>
        LET markets == MarketAggregate(MatchedRows)
            yield_kg == YieldKg(call.crop, call.land_size)
            net(row) == NetProfit(PricePerKg(row) - get_transport_cost(call.district, row.Market),
                                  yield_kg)
        IN  \A i \in DOMAIN call.result :
                call.result[i].is_best =>
                    \A k \in DOMAIN markets : call.result[i].net_profit >= net(markets[k])

\* more than five markets matched, and one that the five highest-priced leave
\* out earns more than the option marked is_best
C9_Witness ==
    /\ OnPricePath
    /\ call.raised = "none"
    /\ call.result[1].is_best
    /\ LET markets == MarketAggregate(MatchedRows)
           yield_kg == YieldKg(call.crop, call.land_size)
       IN  /\ Len(markets) > 5
           /\ \E k \in DOMAIN markets :
                /\ \A i \in DOMAIN call.result : call.result[i].name # markets[k].Market
                /\ PricedOption(markets[k], call.district, yield_kg).net_profit
                     > call.result[1].net_profit

(***************************** C8 ******************************************)
\* the same district up to letter case and surrounding whitespace
SameDistrict(a, b) == Strip(Lower(a)) = Strip(Lower(b))

C10_RealBackendWithoutKeyFails ==
    ( /\ call.fn = "get_weather_forecast"
      /\ USE_REAL_API
      /\ OWM_API_KEY = <<>> )
       => /\ call.raised # "none"
          /\ call.result # mock_weather_forecast(call.district, DefaultDays, call.date)

\* the real backend selected, no key set, and the mock forecast returned
C10_Witness ==
    /\ call.fn = "get_weather_forecast"
    /\ USE_REAL_API
    /\ "OWM_API_KEY" \notin DOMAIN env
    /\ call.raised = "none"
    /\ call.result = mock_weather_forecast(call.district, DefaultDays, call.date)

(***************************** C18 *****************************************)
\* the score as the formula gives it, in tenths of a point:
\* clamp(60 + min(10, forecast_days * 1.4) + 12 [first market earns > 0]
\*       + 5 [district known] + 8 [crop known], 55, 92)
C18_FormulaTenths ==
    Min(920, Max(550,
        600 + Min(100, 14 * Len(weather.days))
            + (IF call.markets # <<>> /\ call.markets[1].net_profit > 0 THEN 120 ELSE 0)
            + (IF Lower(call.district) \in DISTRICT_COORDS THEN 50 ELSE 0)
            + (IF Lower(call.crop) \in DOMAIN CROP_PROFILE THEN 80 ELSE 0)))

CallProfile == Profile(call.crop)
CallDaysLeft == DaysLeft(CallProfile, call.harvest_stage)

\* the offsets the call scored
CallScored == ScoredOffsets(CallProfile, weather.days, CallDaysLeft)

\* the score of the window starting at offset o
CallScore(o) ==
    WindowScore(CallProfile, Slice(weather.days, o, o + CallProfile.harvest_window_days))

(***************************** C14 *****************************************)
\* C14: predict_harvest_window scores every start offset from
\* max(0, days_left - 2) through min(days_left + 5, horizon - 1) inclusive
\* whose window slice is non-empty, horizon being the number of forecast
\* days, and scores no other offset.
C14_ScoredOffsetsAreTheStatedRange ==
    call.fn = "predict_harvest_window" =>
        CallScored =
            {o \in Max(0, CallDaysLeft - 2)..Min(CallDaysLeft + 5, Len(weather.days) - 1) :
                Slice(weather.days, o, o + CallProfile.harvest_window_days) # <<>>}

\* a 7-day forecast whose last day starts a non-empty window inside the
\* stated range, and the call did not score it
C14_Witness ==
    /\ call.fn = "predict_harvest_window"
    /\ Len(weather.days) = 7
    /\ 6 >= Max(0, CallDaysLeft - 2)
    /\ 6 <= Min(CallDaysLeft + 5, Len(weather.days) - 1)
    /\ 6 \notin CallScored
    /\ CallScored # {}

(***************************** C15 *****************************************)
\* C15: whenever at least one offset is scored, the window starts at the
\* scored offset with the highest score, the earliest of them when several
\* score the same, whatever the scores are; only when none is scored does
\* it start at today + max(0, days_left).
C15_StartIsEarliestBest ==
    call.fn = "predict_harvest_window" =>
        LET start == call.result.start_date - today
        IN  IF CallScored # {}
            THEN /\ start \in CallScored
                 /\ \A o \in CallScored : CallScore(o) <= CallScore(start)
                 /\ \A o \in CallScored : CallScore(o) = CallScore(start) => start <= o
            ELSE start = Max(0, CallDaysLeft)

\* offsets were scored, all below -999, and the window starts at an offset
\* that was not the best of them
C15_Witness ==
    /\ call.fn = "predict_harvest_window"
    /\ CallScored # {}
    /\ \A o \in CallScored : CallScore(o) < -999 * 20
    /\ call.result.start_date - today = Max(0, CallDaysLeft)
    /\ \E o \in CallScored : o # call.result.start_date - today
                             /\ CallScore(o) >= CallScore(call.result.start_date - today)

(***************************** C16 *****************************************)
\* C16: the urgency predict_harvest_window returns depends on days_to_start
\* (window start minus today) only: urgent when days_to_start <= 3, normal
\* when 4 <= days_to_start <= 10, plan_ahead when days_to_start > 10.
C16_UrgencyByDaysToStart ==
    call.fn = "predict_harvest_window" =>
        LET days_to_start == call.result.start_date - today
        IN  /\ (days_to_start <= 3) <=> (call.result.urgency = "urgent")
            /\ (days_to_start >= 4 /\ days_to_start <= 10) <=> (call.result.urgency = "normal")
            /\ (days_to_start > 10) <=> (call.result.urgency = "plan_ahead")

\* a window that starts exactly 3 days out, which is urgent
C16_Witness ==
    /\ call.fn = "predict_harvest_window"
    /\ call.result.start_date - today = 3
    /\ call.result.urgency = "urgent"

(***************************** C17 *****************************************)
\* the sum the statement gives, in thousandths of a percentage point, for a
\* crop of perishability p and humidity tolerance tol, a storage factor in
\* tenths, averages in tenths and a transit time in thousandths of an hour
C17_StatedSum(p, tol, factor, avg_temp, avg_humidity, transit_hours) ==
    (CASE p = "high" -> 35 [] p = "medium" -> 20 [] p = "low" -> 10) * factor * 100
      + (IF p \in {"medium", "high"} THEN 150 * Max(0, avg_temp - 300) ELSE 0)
      + 30 * Max(0, avg_humidity - 10 * tol)
      + (IF p = "high" THEN 2 * Max(0, transit_hours - 3000) ELSE 0)

C19_StatedProfit(price_per_kg, transport_cost, crop, land_size) ==
    LET per_acre == IF Lower(crop) \in DOMAIN YIELD_KG_PER_ACRE
                    THEN YIELD_KG_PER_ACRE[Lower(crop)] ELSE YIELD_KG_PER_ACRE[default]
    IN  RoundHalfEven((price_per_kg - transport_cost) * land_size[1] * per_acre,
                      100 * land_size[2])

\* C19: every option get_market_options returns, from the price table or
\* from the fallback, has net_profit = (price_per_kg - transport_cost) *
\* (land_size * yield per acre of the crop) rounded to a whole number,
\* whether transport_cost is below, equal to or above price_per_kg.
C19_NetProfitIsMarginTimesYield ==
    MarketListReturned =>
        \A i \in DOMAIN call.result :
            call.result[i].net_profit =
                C19_StatedProfit(call.result[i].price_per_kg, call.result[i].transport_cost,
                                 call.crop, call.land_size)

\* a price-table option whose transport cost is above its price on 2.5
\* acres: the stated product is negative and the option reports 0
C19_Witness ==
    /\ MarketListReturned
    /\ OnPricePath
    /\ call.land_size = <<5, 2>>
    /\ \E i \in DOMAIN call.result :
          /\ call.result[i].transport_cost > call.result[i].price_per_kg
          /\ call.result[i].net_profit = 0
          /\ C19_StatedProfit(call.result[i].price_per_kg, call.result[i].transport_cost,
                              call.crop, call.land_size) < 0

(***************************** C20 *****************************************)
\* C20: on the price-table path, when the best option's net_profit is above
\* 0 each option's bar_width is min(100, (net_profit / best_profit) * 80 + 20)
\* cut to a whole number, so the best option has 100; when the best option's
\* net_profit is 0 or less every option's bar_width is 40.
C20_BarWidthAsStated ==
    (MarketListReturned /\ OnPricePath) =>
        LET best_profit == call.result[1].net_profit
        IN  \A i \in DOMAIN call.result :
                IF best_profit > 0
                THEN /\ call.result[i].bar_width =
                          Min(100, FloorDiv(call.result[i].net_profit * 80 + 20 * best_profit,
                                            best_profit))
                     /\ call.result[1].bar_width = 100
                ELSE call.result[i].bar_width = 40

\* a price-table ranking whose best option earns nothing and is drawn 20 wide
C20_Witness ==
    /\ MarketListReturned
    /\ OnPricePath
    /\ call.result[1].net_profit <= 0
    /\ call.result[1].bar_width = 20

(***************************** pipeline claims: helpers ********************)
\* the price file of the process cannot be loaded: it is absent or unreadable
PriceFileUnloadable == ~csv.exists \/ ~csv.parses

\* the static fallback options for the request of the call
FallbackFor(req) ==
    mock_market_options(req.crop_type, req.district, req.land_size,
                        YieldKg(req.crop_type, req.land_size))

(***************************** C11 *****************************************)
\* C11: when the price file is absent or unreadable, a request that gets as
\* far as market ranking is served the static fallback options and ends
\* with an advisory (status 200), not with an error.
C11_UnloadableTableServedByFallback ==
    ( /\ call.fn = "analyze"
      /\ PriceFileUnloadable
      /\ call.stage # "weather"
      /\ FallbackFor(call.req).raised = "none" ) =>
        /\ call.status = 200
        /\ call.result.markets = FallbackFor(call.req).options

\* a request for 2.5 acres of tomato with the price file absent that ends in
\* status 500 on the FileNotFoundError of the load
C11_Witness ==
    /\ call.fn = "analyze"
    /\ csv = NoFile
    /\ call.req.land_size = <<5, 2>>
    /\ call.stage = "market"
    /\ call.raised = "FileNotFoundError"
    /\ call.status = 500

(***************************** C12 *****************************************)
\* C12: a request ends with the client-actionable error (status 422) exactly
\* when market ranking produced zero options, and every other fault of any
\* stage ends with the generic internal failure (status 500).
C12_ClientErrorOnlyForNoMarkets ==
    call.fn = "analyze" =>
        /\ call.status \in {200, 422, 500}
        /\ (call.status = 200) <=> (call.raised = "none")
        /\ (call.status = 422) <=> (call.stage = "no_markets")
        /\ (call.raised # "none" /\ call.stage # "no_markets") => call.status = 500

\* a request with an unreadable price file: the load raises ParserError in
\* the market stage, no market list was produced, and the status is 422
C12_Witness ==
    /\ call.fn = "analyze"
    /\ csv = MalformedFile
    /\ call.stage = "market"
    /\ call.raised = "ParserError"
    /\ call.status = 422

(***************************** C13 *****************************************)
\* C13: from the startup pre-load through every request, whether the load
\* succeeds or fails, the body of _load_price_df runs at most once in the
\* process, and a request that ranked markets read the table of that load.
C13_LoadBodyRunsAtMostOnce ==
    /\ loads <= 1
    /\ (call.fn = "analyze" /\ call.stage \in {"done", "no_markets"}) =>
          /\ price_df.loaded
          /\ price_df.rows = LoadPriceDf(csv).rows

\* the price file is absent and the body has run at startup and again in
\* each of two requests
C13_Witness ==
    /\ csv = NoFile
    /\ Len(responses) = 2
    /\ loads = 3

(***************************** C24 *****************************************)
\* C24: in every forecast of the mock provider a day has condition "rain"
\* exactly when its rainfall_mm is above 0, and rain_days is the number of
\* days whose rainfall_mm is above 0, whatever the seed of the day.
C24_RainFieldsAgree ==
    call.fn = "mock_weather_forecast" =>
        LET days == call.result.days
        IN  /\ \A i \in DOMAIN days :
                  (days[i].condition = "rain") <=> (days[i].rainfall_mm > 0)
            /\ call.result.rain_days =
                  Cardinality({i \in DOMAIN days : days[i].rainfall_mm > 0})

\* a forecast with a day whose seed is under 0.002: the day is labelled
\* rain, is counted in rain_days, and has 0.0 mm of rainfall
C24_Witness ==
    /\ call.fn = "mock_weather_forecast"
    /\ \E i \in DOMAIN call.result.days :
          /\ deterministic_seed(NormDistrict(call.district), call.date + i - 1) < 20
          /\ call.result.days[i].condition = "rain"
          /\ call.result.days[i].rainfall_mm = 0
    /\ call.result.rain_days >
          Cardinality({i \in DOMAIN call.result.days : call.result.days[i].rainfall_mm > 0})

(***************************** C26 *****************************************)
\* C26: for every crop, every stage, "overdue" with its negative days_left
\* and stages the profile does not know included, and every forecast, the
\* window predict_harvest_window returns does not start before today.
C26_StartNotBeforeToday ==
    call.fn = "predict_harvest_window" => call.result.start_date >= today

\* an overdue crop none of whose windows was taken: the search fell back on
\* today + max(0, days_left) with days_left below 0
C26_Witness ==
    /\ call.fn = "predict_harvest_window"
    /\ call.harvest_stage = "overdue"
    /\ CallDaysLeft < 0
    /\ \A o \in CallScored : CallScore(o) <= -999 * 20
    /\ call.result.start_date = today

(***************************** C28 *****************************************)
\* the forecast days of the returned window, weather.days[max(0, days_to_start) : days_to_end + 1]
C28_DaysInWindow ==
    Slice(weather.days, Max(0, call.result.start_date - today),
          call.result.end_date - today + 1)

\* C28: predict_harvest_window gives the rain factor the type "good" only
\* when the forecast holds at least one day of the returned window and none
\* of those days has rain, and the temperature factor the type "good" only
\* when the forecast holds at least one day of the window and their mean
\* maximum is within the ideal range; a window wholly past the last
\* forecast day gets neither.
C28_GoodFactorsNeedForecastDays ==
    call.fn = "predict_harvest_window" =>
        LET in_window == C28_DaysInWindow
            hi == 10 * CallProfile.ideal_temp_range[2]
        IN  /\ call.result.factors[1].type = "good" =>
                  /\ in_window # <<>>
                  /\ \A i \in DOMAIN in_window : in_window[i].rainfall_mm = 0
            /\ call.result.factors[2].type = "good" =>
                  /\ in_window # <<>>
                  /\ SeqSum([i \in DOMAIN in_window |-> in_window[i].temp_max_c])
                        <= hi * Len(in_window)

\* a 7-day forecast of cloudbursts and a window that starts after its last
\* day, reported with a "good" rain factor and a "good" temperature factor
C28_Witness ==
    /\ call.fn = "predict_harvest_window"
    /\ Len(weather.days) = 7
    /\ \A i \in DOMAIN weather.days : weather.days[i].rainfall_mm > 0
    /\ call.result.start_date - today >= Len(weather.days)
    /\ call.result.factors[1].type = "good"
    /\ call.result.factors[2].type = "good"

(***************************** C30 *****************************************)
\* every day of the forecast has the same rainfall, maximum temperature and
\* humidity
C30_UniformForecast ==
    /\ weather.days # <<>>
    /\ \A i \in DOMAIN weather.days : weather.days[i] = weather.days[1]

\* C30: when every forecast day has the same rainfall, maximum temperature
\* and humidity and some candidate window is scored, the window starts at
\* the earliest candidate offset max(0, days_left - 2), also when later
\* candidate windows are cut short by the end of the forecast.
C30_UniformStartsEarliest ==
    (call.fn = "predict_harvest_window" /\ C30_UniformForecast /\ CallScored # {}) =>
        call.result.start_date - today = Max(0, CallDaysLeft - 2)

\* seven equal hot humid days: every scored window is above -999, a later
\* window is cut short by the end of the forecast, and the window starts
\* later than the earliest candidate
C30_Witness ==
    /\ call.fn = "predict_harvest_window"
    /\ C30_UniformForecast
    /\ Len(weather.days) = 7
    /\ weather.days[1].rainfall_mm < 6000
    /\ \A o \in CallScored : CallScore(o) > -999 * 20
    /\ Max(0, CallDaysLeft - 2) \in CallScored
    /\ call.result.start_date - today > Max(0, CallDaysLeft - 2)
    /\ call.result.start_date - today + CallProfile.harvest_window_days > Len(weather.days)

(***************************** C29 *****************************************)
\* C29: every crop listed in supported_crops has its own CROP_PROFILE entry,
\* so a call of predict_spoilage or get_preservation_actions for a listed
\* crop is never answered from another crop's profile.
C29_AdvertisedCropsHaveProfiles ==
    ( /\ call.fn \in {"predict_spoilage", "get_preservation_actions"}
      /\ Lower(call.crop) \in SUPPORTED_CROPS ) =>
        /\ Lower(call.crop) \in DOMAIN CROP_PROFILE
        /\ Profile(call.crop) = CROP_PROFILE[Lower(call.crop)]

\* predict_spoilage for chickpea, a listed crop without a profile, answered
\* with what it answers for tomato
C29_Witness ==
    /\ call.fn = "predict_spoilage"
    /\ call.crop = chickpea
    /\ chickpea \in SUPPORTED_CROPS
    /\ chickpea \notin DOMAIN CROP_PROFILE
    /\ call.result = predict_spoilage(tomato, call.storage_type, weather, call.transit_hours)

(***************************** C22 *****************************************)
\* effectiveness * 10 / (cost + 1) of a is at least that of b
C22_ValueAtLeast(a_eff, a_cost, b_eff, b_cost) ==
    a_eff * 10 * (b_cost + 1) >= b_eff * 10 * (a_cost + 1)

\* C22: get_preservation_actions returns, in order, the 3 actions of the
\* crop's perishability pool with the highest effectiveness * 10 / (cost + 1),
\* so every free action of the list is ranked above every action of the
\* list that costs something.
C22_TopThreeByValue ==
    call.fn = "get_preservation_actions" =>
        LET r == call.result
            pool == ActionPool(Profile(call.crop).perishability)
            returned == {r[i].title : i \in DOMAIN r}
        IN  /\ Len(r) = 3
            /\ Cardinality(returned) = 3
            /\ \A i \in DOMAIN r :
                  \E k \in DOMAIN pool :
                      /\ pool[k].title = r[i].title
                      /\ pool[k].cost = r[i].cost_value
                      /\ pool[k].effectiveness = r[i].effectiveness
            /\ \A i, j \in DOMAIN r :
                  i < j => C22_ValueAtLeast(r[i].effectiveness, r[i].cost_value,
                                            r[j].effectiveness, r[j].cost_value)
            /\ \A i \in DOMAIN r : \A k \in DOMAIN pool :
                  pool[k].title \notin returned =>
                      C22_ValueAtLeast(r[i].effectiveness, r[i].cost_value,
                                       pool[k].effectiveness, pool[k].cost)
            /\ \A i, j \in DOMAIN r :
                  (r[i].cost_value = 0 /\ r[j].cost_value > 0) => i < j

\* the list for a high-perishability crop: the free action first, and the
\* fourth action of the pool, of effectiveness 5 at cost 2750, left out
\* for one of effectiveness 3 at cost 1500
C22_Witness ==
    /\ call.fn = "get_preservation_actions"
    /\ Profile(call.crop).perishability = "high"
    /\ call.result[1].cost_value = 0
    /\ call.result[2].cost_value = 1000
    /\ call.result[3].cost_value = 1500
    /\ call.result[3].effectiveness = 3
    /\ \E k \in DOMAIN ALL_ACTIONS.high_perishability :
          /\ ALL_ACTIONS.high_perishability[k].effectiveness = 5
          /\ \A i \in 1..3 : call.result[i].title # ALL_ACTIONS.high_perishability[k].title

(***************************** C27 *****************************************)
\* transport_cost, in paise, is 0.15 * distance_km / 100 rupees to 2 decimals
C27_CostOfDistance(transport_cost, distance_km) ==
    LET diff == 100 * transport_cost * distance_km[2] - 15 * distance_km[1]
    IN  2 * (IF diff >= 0 THEN diff ELSE -diff) <= 100 * distance_km[2]

\* C27: for every option get_market_options returns, from the price table
\* or from the fallback, distance_km is the distance the transport cost was
\* computed from: transport_cost = TRANSPORT_RATE_PER_KM * distance_km / 100
\* to 2 decimals.
C27_DistanceIsTheOneCharged ==
    MarketListReturned =>
        \A i \in DOMAIN call.result :
            C27_CostOfDistance(call.result[i].transport_cost, call.result[i].distance_km)

\* a price-table option for a market the district's distance table does not
\* hold: charged for the median 210 km of nashik, reported at 80 km
C27_Witness ==
    /\ MarketListReturned
    /\ OnPricePath
    /\ call.district = nashik
    /\ \E i \in DOMAIN call.result :
          /\ call.result[i].transport_cost = 32
          /\ call.result[i].distance_km = <<80, 1>>
          /\ ChargedKm(call.district, call.result[i].name) = 210

(***************************** C21 *****************************************)
\* the rows _price_trend matched for option i of the returned list
C21_Rows(i) == TrendRows(FilterByCrop(price_df.rows, call.crop), call.result[i].name)

\* the Arrival_Date values of the rows of s, each row of the table having its own
C21_Dates(s) == {s[k].Arrival_Date : k \in DOMAIN s}

\* C21: on the price-table path, for a market with n matching rows in
\* arrival order, the trend is the indeterminate text exactly when n < 2;
\* otherwise it compares the mean of the 5 most recent rows with the mean of
\* the rows earlier than those 5, two groups with no row in common.
C21_TrendGroupsDisjoint ==
    (MarketListReturned /\ OnPricePath) =>
        \A i \in DOMAIN call.result :
            LET sub == C21_Rows(i)
            IN  /\ (call.result[i].trend.text = "Insufficient data for trend")
                      <=> (Len(sub) < 2)
                /\ Len(sub) >= 2 =>
                      /\ C21_Dates(TrendRecent(sub)) = C21_Dates(Slice(sub, Max(0, Len(sub) - 5), Len(sub)))
                      /\ C21_Dates(TrendOlder(sub)) = C21_Dates(Slice(sub, 0, Len(sub) - 5))
                      /\ C21_Dates(TrendRecent(sub)) \cap C21_Dates(TrendOlder(sub)) = {}

\* a market with 2 matching rows, 1990 then 1950: the older group is the
\* first row, which is also one of the recent rows, and the trend is -1.0 %
C21_Witness ==
    /\ MarketListReturned
    /\ OnPricePath
    /\ \E i \in DOMAIN call.result :
          LET sub == C21_Rows(i)
          IN  /\ Len(sub) = 2
              /\ sub[1] \in {TrendOlder(sub)[k] : k \in DOMAIN TrendOlder(sub)}
              /\ sub[1] \in {TrendRecent(sub)[k] : k \in DOMAIN TrendRecent(sub)}
              /\ call.result[i].trend = [text |-> "% recent trend", change |-> -10]

(***************************** C23 *****************************************)
\* C23: the urgency-dependent wording matches HarvestWindow.urgency: the
\* days_from_today suffix is 'act soon!' iff urgency is urgent, 'optimal
\* window' iff normal, 'plan ahead' iff plan_ahead; soil_reason says
\* 'Immediate action recommended' iff urgency is urgent, and the stage it
\* names is that urgency value.
C23_WordingMatchesUrgency ==
    (call.fn = "build_explanation") =>
        LET urgency == call.harvest_window.urgency
            suffix == call.harvest_window.days_from_today.suffix
            soil_reason == call.result.soil_reason
        IN  /\ urgency \in {"urgent", "normal", "plan_ahead"}
            /\ (suffix = "act soon!") <=> (urgency = "urgent")
            /\ (suffix = "optimal window") <=> (urgency = "normal")
            /\ (suffix = "plan ahead") <=> (urgency = "plan_ahead")
            /\ (soil_reason.closing = "Immediate action recommended to avoid over-ripening.")
                  <=> (urgency = "urgent")
            /\ soil_reason.stage = UnderscoreToSpace(UrgencyChars(urgency))

\* a window 7 days away: urgency normal, 'optimal window', and a soil_reason
\* that names the normal stage and does not call for immediate action
C23_Witness ==
    /\ call.fn = "build_explanation"
    /\ call.harvest_window.urgency = "normal"
    /\ call.harvest_window.days_from_today.suffix = "optimal window"
    /\ call.result.soil_reason.stage = <<"n","o","r","m","a","l">>
    /\ call.result.soil_reason.closing = "Plan your harvest crew and transport now."

(***************************** C25 *****************************************)
\* the action get_preservation_actions ranks 1 for the crop of the call
C25_RankOne == SortedByKey(ActionPool(Profile(call.crop).perishability))[1]

\* the pool action the words of step 04 describe
C25_EarlyMorningHarvest == "Harvest in early morning (5-8 AM)"

\* C25: for every crop, the action reasoning step 04 names and the cut it
\* quotes are the title and the spoilage reduction of the action
\* get_preservation_actions ranks 1 for the crop's perishability class.
C25_StepFourAgreesWithRanker ==
    (call.fn = "build_reasoning_steps") =>
        LET step == call.result[2]
        IN  /\ call.preservation[1].title = C25_RankOne.title
            /\ step.top_action = "early morning harvest"
                  => C25_RankOne.title = C25_EarlyMorningHarvest
            /\ step.cut_points = C25_RankOne.spoilage_reduction
            /\ (step.top_cost = "free") <=> (C25_RankOne.cost = 0)

\* an onion request: the ranker puts curing first, which cuts 18 points,
\* and step 04 names the early morning harvest and 8 points
C25_Witness ==
    /\ call.fn = "build_reasoning_steps"
    /\ call.crop = onion
    /\ call.preservation[1].title = "Cure produce before storage (7-10 days in shade)"
    /\ C25_RankOne.spoilage_reduction = 18
    /\ call.result[2].top_action = "early morning harvest"
    /\ call.result[2].cut_points = 8

=============================================================================
